---- MODULE Spec2Model ----
(***************************************************************************)
(* toylang: the type checker (frontend/src/type_checker.rs), its driver    *)
(* check_typing (interpreter/src/lib.rs) and the tree-walking evaluator    *)
(* (interpreter/src/main.rs), as a state machine.                          *)
(*                                                                         *)
(* The visitor methods are recursive Rust functions over a mutable         *)
(* TypeCheckerVisitor; they are modelled as recursive operators that take  *)
(* the visitor (a record) and return the visitor after the call together   *)
(* with the Result.  ExprRef / StmtRef are 1-based here (0-based in Rust); *)
(* 0 stands for Option::None of a ref.                                     *)
(***************************************************************************)
EXTENDS Integers, Sequences, FiniteSets, TLC

(***************************************************************************)
(* Bounds.  Integers are IntBits wide instead of 64 so that TLC can        *)
(* enumerate the overflow cases; every range below is derived from it.     *)
(***************************************************************************)
IntBits == 6

RECURSIVE Pow2(_)
Pow2(n) == IF n = 0 THEN 1 ELSE 2 * Pow2(n - 1)

I64_MAX == Pow2(IntBits - 1) - 1
I64_MIN == 0 - Pow2(IntBits - 1)
U64_MAX == Pow2(IntBits) - 1

(***************************************************************************)
(* TypeDecl.  Option<TypeDecl>::None is NoneT.                             *)
(***************************************************************************)
Ty(k) == [k |-> k, elems |-> <<>>, size |-> 0]
UnitT == Ty("Unit")
BoolT == Ty("Bool")
Int64T == Ty("Int64")
UInt64T == Ty("UInt64")
StringT == Ty("String")
NumberT == Ty("Number")
UnknownT == Ty("Unknown")
AnyT == Ty("Any")
NoneT == Ty("None")
\* Array(element_types, size): elems is the Vec<TypeDecl>
ArrayT(elems, n) == [k |-> "Array", elems |-> elems, size |-> n]

(***************************************************************************)
(* Interned digit strings of unsuffixed literals, and str::parse.          *)
(***************************************************************************)
Sym(neg, digits) == [neg |-> neg, digits |-> digits]
NoSym == Sym(FALSE, <<>>)

RECURSIVE ToDigits(_)
ToDigits(n) == IF n < 10 THEN <<n>> ELSE Append(ToDigits(n \div 10), n % 10)

RECURSIVE Magnitude(_)
Magnitude(ds) ==
    IF ds = <<>> THEN 0
    ELSE 10 * Magnitude(SubSeq(ds, 1, Len(ds) - 1)) + ds[Len(ds)]

ParseOk(v) == [ok |-> TRUE, val |-> v]
ParseErr == [ok |-> FALSE, val |-> 0]

parse_i64(sym) ==
    IF sym.digits = <<>> THEN ParseErr
    ELSE LET m == Magnitude(sym.digits)
             v == IF sym.neg THEN 0 - m ELSE m
         IN  IF v >= I64_MIN /\ v <= I64_MAX THEN ParseOk(v) ELSE ParseErr

parse_u64(sym) ==
    IF sym.digits = <<>> \/ sym.neg THEN ParseErr
    ELSE LET m == Magnitude(sym.digits)
         IN  IF m <= U64_MAX THEN ParseOk(m) ELSE ParseErr

(***************************************************************************)
(* AST nodes.  Every node is a record over the same fields so that nodes   *)
(* of different variants can be compared.                                  *)
(***************************************************************************)
Node(kind) ==
    [kind |-> kind, val |-> 0, sym |-> NoSym, name |-> "", op |-> "",
     lhs |-> 0, rhs |-> 0, third |-> 0, items |-> <<>>]

EInt64(v) == [Node("Int64") EXCEPT !.val = v]
EUInt64(v) == [Node("UInt64") EXCEPT !.val = v]
ENumber(sym) == [Node("Number") EXCEPT !.sym = sym]
EString(s) == [Node("String") EXCEPT !.name = s]
ETrue == Node("True")
EFalse == Node("False")
ENull == Node("Null")
EIdentifier(n) == [Node("Identifier") EXCEPT !.name = n]
EBinary(op, l, r) == [Node("Binary") EXCEPT !.op = op, !.lhs = l, !.rhs = r]
EAssign(l, r) == [Node("Assign") EXCEPT !.lhs = l, !.rhs = r]
EBlock(stmts) == [Node("Block") EXCEPT !.items = stmts]
\* IfElifElse(cond, then, elif_pairs, else): items holds the elif blocks
EIfElifElse(c, t, elifs, e) ==
    [Node("IfElifElse") EXCEPT !.lhs = c, !.rhs = t, !.items = elifs, !.third = e]
ECall(fn, args) == [Node("Call") EXCEPT !.name = fn, !.lhs = args]
EExprList(items) == [Node("ExprList") EXCEPT !.items = items]
EArrayLiteral(elems) == [Node("ArrayLiteral") EXCEPT !.items = elems]
EArrayAccess(a, i) == [Node("ArrayAccess") EXCEPT !.lhs = a, !.rhs = i]

SNode(kind) ==
    [kind |-> kind, name |-> "", decl |-> NoneT, expr |-> 0,
     cond |-> 0, range |-> 0, body |-> 0]

SExpression(e) == [SNode("Expression") EXCEPT !.expr = e]
SVal(n, decl, e) == [SNode("Val") EXCEPT !.name = n, !.decl = decl, !.expr = e]
SVar(n, decl, e) == [SNode("Var") EXCEPT !.name = n, !.decl = decl, !.expr = e]
SReturn(e) == [SNode("Return") EXCEPT !.expr = e]
SFor(init, c, r, b) ==
    [SNode("For") EXCEPT !.name = init, !.cond = c, !.range = r, !.body = b]
SWhile(c, b) == [SNode("While") EXCEPT !.cond = c, !.body = b]
SBreak == SNode("Break")
SContinue == SNode("Continue")

Function(name, parameter, return_type, code) ==
    [name |-> name, parameter |-> parameter, return_type |-> return_type,
     code |-> code]
Param(n, t) == [name |-> n, ty |-> t]

(***************************************************************************)
(* Maps (HashMap): functions over a finite domain.                         *)
(***************************************************************************)
EmptyMap == [x \in {} |-> 0]
Put(m, k, v) == [x \in DOMAIN m \cup {k} |-> IF x = k THEN v ELSE m[x]]
Remove(m, k) == [x \in DOMAIN m \ {k} |-> m[x]]

RECURSIVE SortedSeq(_)
SortedSeq(S) ==
    IF S = {} THEN <<>>
    ELSE LET m == CHOOSE x \in S : \A y \in S : x <= y
         IN  <<m>> \o SortedSeq(S \ {m})

(***************************************************************************)
(* TypeCheckError and Result<TypeDecl, TypeCheckError>.  A visit returns   *)
(* the visitor it leaves behind (st) with the result.                      *)
(***************************************************************************)
TcError(kind, a, b, info) ==
    [kind |-> kind, a |-> a, b |-> b, info |-> info, context |-> ""]
NoError == TcError("", NoneT, NoneT, "")
type_mismatch(expected, actual) == TcError("TypeMismatch", expected, actual, "")
type_mismatch_operation(operation, l, r) ==
    TcError("TypeMismatchOperation", l, r, operation)
not_found(item, name) == TcError("NotFound", NoneT, NoneT, item)
unsupported_operation(operation, t) ==
    TcError("UnsupportedOperation", t, NoneT, operation)
conversion_error(to) == TcError("ConversionError", NoneT, NoneT, to)
array_error(msg) == TcError("ArrayError", NoneT, NoneT, msg)
invalid_literal(expected) == TcError("InvalidLiteral", NoneT, NoneT, expected)
generic_error(msg) == TcError("GenericError", NoneT, NoneT, msg)
with_context(e, ctx) == [e EXCEPT !.context = ctx]

Ok(st, ty) == [st |-> st, ok |-> TRUE, ty |-> ty, err |-> NoError]
Err(st, e) == [st |-> st, ok |-> FALSE, ty |-> NoneT, err |-> e]

(***************************************************************************)
(* TypeCheckerVisitor.  expr_pool is the program's expression pool, which  *)
(* the visitor borrows mutably; stmt_pool is borrowed read-only.  obs is a *)
(* history field: what each visit of interest found on entry and on exit.  *)
(***************************************************************************)
TypeCheckerVisitor_new(stmt_pool, expr_pool) ==
    [stmt_pool |-> stmt_pool,
     expr_pool |-> expr_pool,
     vars |-> << EmptyMap >>,
     functions |-> EmptyMap,
     type_hint |-> NoneT,
     variable_expr_mapping |-> EmptyMap,
     number_usage_context |-> <<>>,
     is_checked_fn |-> EmptyMap,
     call_depth |-> 0,
     type_cache |-> EmptyMap,
     obs |-> {},
     rewrites |-> {},
     body_visits |-> <<>>]

Observation(op, what, s, r) ==
    [op |-> op, what |-> what, ok |-> r.ok,
     hint_in |-> s.type_hint, hint_out |-> r.st.type_hint,
     vars_in |-> Len(s.vars), vars_out |-> Len(r.st.vars),
     depth_in |-> s.call_depth, depth_out |-> r.st.call_depth]

Observed(op, what, s, r) ==
    [r EXCEPT !.st.obs = @ \cup {Observation(op, what, s, r)}]

push_context(s) == [s EXCEPT !.vars = Append(@, EmptyMap)]

pop_context(s) ==
    [s EXCEPT !.vars = IF @ = <<>> THEN @ ELSE SubSeq(@, 1, Len(@) - 1)]

add_function(s, f) == [s EXCEPT !.functions = Put(@, f.name, f)]

\* TypeCheckContext (context.rs)
set_var(s, name, ty) ==
    [s EXCEPT !.vars[Len(s.vars)] = Put(@, name, ty)]

VarFrames(s, name) == {i \in 1..Len(s.vars) : name \in DOMAIN s.vars[i]}

InnermostFrame(s, name) ==
    CHOOSE i \in VarFrames(s, name) : \A j \in VarFrames(s, name) : j <= i

has_var(s, name) == VarFrames(s, name) # {}

get_var(s, name) ==
    IF has_var(s, name) THEN s.vars[InnermostFrame(s, name)][name] ELSE NoneT

update_var_type(s, name, ty) ==
    IF has_var(s, name)
    THEN [s EXCEPT !.vars[InnermostFrame(s, name)] = Put(@, name, ty)]
    ELSE s

has_fn(s, name) == name \in DOMAIN s.functions
get_fn(s, name) == s.functions[name]

ValidExpr(s, e) == e \in 1..Len(s.expr_pool)
ValidStmt(s, r) == r \in 1..Len(s.stmt_pool)

IsNumberNode(s, e) == ValidExpr(s, e) /\ s.expr_pool[e].kind = "Number"

cache_type(s, e, ty) == [s EXCEPT !.type_cache = Put(@, e, ty)]

setup_type_hint_for_val(s, type_decl) ==
    IF type_decl = NoneT THEN s
    ELSE IF type_decl.k = "Array"
         THEN IF type_decl.elems # <<>>
              THEN [s EXCEPT !.type_hint = type_decl] ELSE s
         ELSE IF type_decl # UnknownT /\ type_decl # NumberT
              THEN [s EXCEPT !.type_hint = type_decl] ELSE s

has_number_in_expr(s, e) == IsNumberNode(s, e)

is_number_for_variable(s, var_name, e) ==
    /\ var_name \in DOMAIN s.variable_expr_mapping
    /\ s.variable_expr_mapping[var_name] = e

is_old_number_for_variable(s, var_name, e) == IsNumberNode(s, e)

update_variable_expr_mapping(s, name, e, expr_ty) ==
    IF expr_ty = NumberT \/ (expr_ty # NumberT /\ has_number_in_expr(s, e))
    THEN [s EXCEPT !.variable_expr_mapping = Put(@, name, e)]
    ELSE [s EXCEPT
            !.variable_expr_mapping = Remove(@, name),
            !.number_usage_context =
                SelectSeq(@, LAMBDA u : ~is_old_number_for_variable(s, name, u.ref))]

determine_final_type(type_decl, expr_ty) ==
    IF type_decl = UnknownT THEN expr_ty
    ELSE IF type_decl # NoneT /\ type_decl # UnknownT /\ type_decl # NumberT
         THEN type_decl
         ELSE expr_ty

\* the pool indices at which two pools differ (an index of only one of them
\* counts as different)
ChangedRefs(before, after) ==
    {i \in 1..(IF Len(before) > Len(after) THEN Len(before) ELSE Len(after)) :
        i > Len(before) \/ i > Len(after) \/ before[i] # after[i]}

\* history of the rewrites: one record per `*expr = ...`
Rewrite(expr_ref, before, after) ==
    [expr_ref |-> expr_ref, len_in |-> Len(before), len_out |-> Len(after),
     changed |-> ChangedRefs(before, after),
     kind_out |-> IF expr_ref \in 1..Len(after) THEN after[expr_ref].kind ELSE ""]

rewrite_node_shifted(expr_pool, expr_ref, node) ==
    [expr_pool EXCEPT ![(expr_ref % Len(expr_pool)) + 1] = node]
\* expr_pool.get_mut(expr_ref.to_index()) and `*expr = node`
rewrite_node(expr_pool, expr_ref, node) ==
    [expr_pool EXCEPT ![expr_ref] = node]

Rewritten(s, e, node) ==
    LET after == rewrite_node(s.expr_pool, e, node) IN
    Ok([s EXCEPT !.expr_pool = after,
                 !.rewrites = @ \cup {Rewrite(e, s.expr_pool, after)}], UnitT)

transform_numeric_expr(s, e, target_type) ==
    IF ~IsNumberNode(s, e) THEN Ok(s, UnitT)
    ELSE LET sym == s.expr_pool[e].sym IN
         IF target_type = UInt64T
         THEN IF parse_u64(sym).ok
              THEN Rewritten(s, e, EUInt64(parse_u64(sym).val))
              ELSE Err(s, conversion_error("UInt64"))
         ELSE IF target_type = Int64T
         THEN IF parse_i64(sym).ok
              THEN Rewritten(s, e, EInt64(parse_i64(sym).val))
              ELSE Err(s, conversion_error("Int64"))
         ELSE Err(s, unsupported_operation("transform", target_type))

apply_type_transformations(s, type_decl, expr_ty, e) ==
    IF type_decl = NoneT /\ expr_ty = NumberT
    THEN IF s.type_hint \in {Int64T, UInt64T}
         THEN transform_numeric_expr(s, e, s.type_hint) ELSE Ok(s, UnitT)
    ELSE IF type_decl = UnknownT /\ expr_ty = Int64T
    THEN IF s.type_hint \in {Int64T, UInt64T}
         THEN transform_numeric_expr(s, e, s.type_hint) ELSE Ok(s, UnitT)
    ELSE IF /\ type_decl # NoneT /\ type_decl # UnknownT /\ type_decl # NumberT
            /\ expr_ty = type_decl /\ IsNumberNode(s, e)
    THEN transform_numeric_expr(s, e, type_decl)
    ELSE Ok(s, UnitT)

update_identifier_types(s, e, original_ty, resolved_ty) ==
    IF /\ original_ty = NumberT /\ resolved_ty # NumberT
       /\ ValidExpr(s, e) /\ s.expr_pool[e].kind = "Identifier"
    THEN update_var_type(s, s.expr_pool[e].name, resolved_ty)
    ELSE s

Usage(e, ty) == [ref |-> e, ty |-> ty]

\* the Number nodes of the pool that are mapped to `name`, in pool order
NumbersOfVariable(s, name) ==
    SortedSeq({i \in 1..Len(s.expr_pool) :
                  IsNumberNode(s, i) /\ is_number_for_variable(s, name, i)})

record_number_usage_context(s, e, original_ty, resolved_ty) ==
    IF original_ty = NumberT /\ resolved_ty # NumberT /\ ValidExpr(s, e)
    THEN IF s.expr_pool[e].kind = "Identifier"
         THEN LET c == NumbersOfVariable(s, s.expr_pool[e].name)
              IN  [s EXCEPT !.number_usage_context =
                       @ \o [i \in 1..Len(c) |-> Usage(c[i], resolved_ty)]]
         ELSE IF s.expr_pool[e].kind = "Number"
         THEN [s EXCEPT !.number_usage_context = Append(@, Usage(e, resolved_ty))]
         ELSE s
    ELSE s

propagate_to_number_variable(s, e, target_type) ==
    IF /\ ValidExpr(s, e) /\ s.expr_pool[e].kind = "Identifier"
       /\ get_var(s, s.expr_pool[e].name) = NumberT
    THEN LET name == s.expr_pool[e].name
             c == NumbersOfVariable(s, name)
         IN  IF c = <<>> THEN s
             ELSE update_var_type(
                    [s EXCEPT !.number_usage_context =
                         @ \o [i \in 1..Len(c) |-> Usage(c[i], target_type)]],
                    name, target_type)
    ELSE s

propagate_type_to_number_expr(s, e, target_type) ==
    IF ~ValidExpr(s, e) THEN s
    ELSE IF s.expr_pool[e].kind = "Identifier"
    THEN LET name == s.expr_pool[e].name IN
         IF get_var(s, name) = NumberT
         THEN LET s1 == update_var_type(s, name, target_type) IN
              IF name \in DOMAIN s1.variable_expr_mapping
              THEN [s1 EXCEPT !.number_usage_context =
                        Append(@, Usage(s1.variable_expr_mapping[name], target_type))]
              ELSE s1
         ELSE s
    ELSE IF s.expr_pool[e].kind = "Number"
    THEN [s EXCEPT !.number_usage_context = Append(@, Usage(e, target_type))]
    ELSE s

\* resolve_numeric_types without the hint: two Numbers are always UInt64
resolve_numeric_types_unhinted(s, lhs_ty, rhs_ty) ==
    LET Both(t) == [ok |-> TRUE, l |-> t, r |-> t, err |-> NoError]
        Fail(e) == [ok |-> FALSE, l |-> NoneT, r |-> NoneT, err |-> e]
    IN
    IF lhs_ty = NumberT /\ rhs_ty \in {UInt64T, Int64T} THEN Both(rhs_ty)
    ELSE IF rhs_ty = NumberT /\ lhs_ty \in {UInt64T, Int64T} THEN Both(lhs_ty)
    ELSE IF lhs_ty = NumberT /\ rhs_ty = NumberT THEN Both(UInt64T)
    ELSE IF {lhs_ty, rhs_ty} = {UInt64T, Int64T}
    THEN Fail(type_mismatch_operation("mixed signed/unsigned", lhs_ty, rhs_ty))
    ELSE IF lhs_ty = rhs_ty THEN Both(lhs_ty)
    ELSE Fail(type_mismatch(lhs_ty, rhs_ty))

resolve_numeric_types(s, lhs_ty, rhs_ty) ==
    LET Both(t) == [ok |-> TRUE, l |-> t, r |-> t, err |-> NoError]
        Fail(e) == [ok |-> FALSE, l |-> NoneT, r |-> NoneT, err |-> e]
    IN
    IF lhs_ty = UInt64T /\ rhs_ty = UInt64T THEN Both(UInt64T)
    ELSE IF lhs_ty = Int64T /\ rhs_ty = Int64T THEN Both(Int64T)
    ELSE IF lhs_ty = BoolT /\ rhs_ty = BoolT THEN Both(BoolT)
    ELSE IF lhs_ty = StringT /\ rhs_ty = StringT THEN Both(StringT)
    ELSE IF lhs_ty = NumberT /\ rhs_ty = UInt64T THEN Both(UInt64T)
    ELSE IF lhs_ty = UInt64T /\ rhs_ty = NumberT THEN Both(UInt64T)
    ELSE IF lhs_ty = NumberT /\ rhs_ty = Int64T THEN Both(Int64T)
    ELSE IF lhs_ty = Int64T /\ rhs_ty = NumberT THEN Both(Int64T)
    ELSE IF lhs_ty = NumberT /\ rhs_ty = NumberT
    THEN IF s.type_hint = Int64T THEN Both(Int64T) ELSE Both(UInt64T)
    ELSE IF \/ (lhs_ty = UInt64T /\ rhs_ty = Int64T)
            \/ (lhs_ty = Int64T /\ rhs_ty = UInt64T)
    THEN Fail(type_mismatch_operation("mixed signed/unsigned", lhs_ty, rhs_ty))
    ELSE IF lhs_ty = rhs_ty
    THEN [ok |-> TRUE, l |-> lhs_ty, r |-> rhs_ty, err |-> NoError]
    ELSE Fail(type_mismatch(lhs_ty, rhs_ty))

ArithOps == {"IAdd", "ISub", "IMul", "IDiv"}
CompareOps == {"LE", "LT", "GE", "GT", "EQ", "NE"}
LogicalOps == {"LogicalAnd", "LogicalOr"}

\* the match on `op` with a comparison arm that takes any two operands of
\* one type
binary_result_type_lenient(op, l, r) ==
    IF op = "IAdd" /\ l = StringT /\ r = StringT THEN [ok |-> TRUE, ty |-> StringT, err |-> NoError]
    ELSE IF op \in ArithOps
    THEN IF l = r /\ l \in {UInt64T, Int64T} THEN [ok |-> TRUE, ty |-> l, err |-> NoError]
         ELSE [ok |-> FALSE, ty |-> NoneT, err |-> type_mismatch_operation("arithmetic", l, r)]
    ELSE IF op \in CompareOps
    THEN IF l = r THEN [ok |-> TRUE, ty |-> BoolT, err |-> NoError]
         ELSE [ok |-> FALSE, ty |-> NoneT, err |-> type_mismatch_operation("comparison", l, r)]
    ELSE IF l = BoolT /\ r = BoolT THEN [ok |-> TRUE, ty |-> BoolT, err |-> NoError]
         ELSE [ok |-> FALSE, ty |-> NoneT, err |-> type_mismatch_operation("logical", l, r)]

\* the match on `op` that ends visit_binary
binary_result_type(op, l, r) ==
    IF op = "IAdd" /\ l = StringT /\ r = StringT THEN [ok |-> TRUE, ty |-> StringT, err |-> NoError]
    ELSE IF op \in ArithOps
    THEN IF l = UInt64T /\ r = UInt64T THEN [ok |-> TRUE, ty |-> UInt64T, err |-> NoError]
         ELSE IF l = Int64T /\ r = Int64T THEN [ok |-> TRUE, ty |-> Int64T, err |-> NoError]
         ELSE [ok |-> FALSE, ty |-> NoneT, err |-> type_mismatch_operation("arithmetic", l, r)]
    ELSE IF op \in CompareOps
    THEN IF l \in {UInt64T, Int64T} /\ r \in {UInt64T, Int64T}
         THEN [ok |-> TRUE, ty |-> BoolT, err |-> NoError]
         ELSE IF l = BoolT /\ r = BoolT THEN [ok |-> TRUE, ty |-> BoolT, err |-> NoError]
         ELSE [ok |-> FALSE, ty |-> NoneT, err |-> type_mismatch_operation("comparison", l, r)]
    ELSE IF l = BoolT /\ r = BoolT THEN [ok |-> TRUE, ty |-> BoolT, err |-> NoError]
         ELSE [ok |-> FALSE, ty |-> NoneT, err |-> type_mismatch_operation("logical", l, r)]

\* visit_number_literal without the sign test: every literal that parses as
\* i64 is a Number when there is no integer hint
visit_number_literal_unsigned(s, sym) ==
    IF s.type_hint = Int64T
    THEN IF parse_i64(sym).ok THEN Ok(s, Int64T) ELSE Err(s, conversion_error("Int64"))
    ELSE IF s.type_hint = UInt64T
    THEN IF parse_u64(sym).ok THEN Ok(s, UInt64T) ELSE Err(s, conversion_error("UInt64"))
    ELSE IF parse_i64(sym).ok THEN Ok(s, NumberT)
    ELSE IF parse_u64(sym).ok THEN Ok(s, UInt64T)
    ELSE Err(s, invalid_literal("number"))

visit_number_literal(s, sym) ==
    IF s.type_hint = Int64T
    THEN IF parse_i64(sym).ok THEN Ok(s, Int64T) ELSE Err(s, conversion_error("Int64"))
    ELSE IF s.type_hint = UInt64T
    THEN IF parse_u64(sym).ok THEN Ok(s, UInt64T) ELSE Err(s, conversion_error("UInt64"))
    ELSE IF parse_i64(sym).ok
    THEN IF parse_i64(sym).val >= 0 /\ parse_i64(sym).val <= I64_MAX
         THEN Ok(s, NumberT) ELSE Ok(s, Int64T)
    ELSE IF parse_u64(sym).ok THEN Ok(s, UInt64T)
    ELSE Err(s, invalid_literal("number"))

visit_identifier(s, name) ==
    IF has_var(s, name) THEN Ok(s, get_var(s, name))
    ELSE IF has_fn(s, name)
    THEN Ok(s, IF get_fn(s, name).return_type = NoneT THEN UnknownT
               ELSE get_fn(s, name).return_type)
    ELSE Err(s, not_found("Identifier", name))

(***************************************************************************)
(* The visitor (impl AstVisitor for TypeCheckerVisitor) and type_check.    *)
(* A Rust function that runs fallible steps in sequence is one operator    *)
(* per step: <fn>_<step> takes the result of the step before it (the       *)
(* visitor it left and its Result) and runs the rest of the function.      *)
(***************************************************************************)
RECURSIVE accept_expr(_, _)
RECURSIVE accept_stmt(_, _)
RECURSIVE visit_expr(_, _)
RECURSIVE visit_block_statements(_, _, _, _, _)
RECURSIVE visit_branches(_, _, _, _)
RECURSIVE visit_elements(_, _, _, _, _, _)
RECURSIVE type_check(_, _)
RECURSIVE type_check_statements(_, _, _, _)

\* `?` after a step whose value is dropped, then Ok(TypeDecl::Unit)
then_unit(r) == IF ~r.ok THEN r ELSE Ok(r.st, UnitT)

\* visit_expr after expr.accept(self): cache the type; an Int64 or UInt64
\* result becomes the hint when no hint was set
visit_expr_accepted(original_hint, e, r) ==
    IF ~r.ok THEN r
    ELSE IF /\ original_hint = NoneT
            /\ r.ty \in {Int64T, UInt64T}
            /\ r.st.type_hint = NoneT
    THEN Ok([cache_type(r.st, e, r.ty) EXCEPT !.type_hint = r.ty], r.ty)
    ELSE Ok(cache_type(r.st, e, r.ty), r.ty)

visit_expr(s, e) ==
    IF e \in DOMAIN s.type_cache THEN Ok(s, s.type_cache[e])
    ELSE Observed("visit_expr", "", s,
         IF ~ValidExpr(s, e) THEN Err(s, generic_error("Invalid expression reference"))
         ELSE visit_expr_accepted(s.type_hint, e, accept_expr(s, s.expr_pool[e])))

\* visit_binary: context propagation of the hint to a Number operand
propagate_hint(s, e, ty, hint) ==
    IF hint \in {Int64T, UInt64T} /\ ty = NumberT
    THEN propagate_type_to_number_expr(s, e, hint) ELSE s

\* visit_binary: the resolved type of one side reaches the Number variable
\* on the other side
propagate_resolved(s, e, ty, resolved) ==
    IF resolved # NumberT /\ ty = NumberT
    THEN propagate_to_number_variable(s, e, resolved) ELSE s

\* visit_binary: the bookkeeping between resolve_numeric_types and the
\* transformations, in source order
visit_binary_context(s, lhs, rhs, lhs_ty, rhs_ty, res) ==
    propagate_resolved(
      propagate_resolved(
        record_number_usage_context(
          record_number_usage_context(
            propagate_hint(
              propagate_hint(s, lhs, lhs_ty, s.type_hint),
              rhs, rhs_ty, s.type_hint),
            lhs, lhs_ty, res.l),
          rhs, rhs_ty, res.r),
        rhs, rhs_ty, res.l),
      lhs, lhs_ty, res.r)

\* visit_binary: transform_numeric_expr of a Number operand, with `?`
transform_operand(t, e, ty, resolved) ==
    IF ~t.ok THEN t
    ELSE IF ty = NumberT /\ resolved # NumberT
    THEN transform_numeric_expr(t.st, e, resolved)
    ELSE Ok(t.st, UnitT)

\* visit_binary after both transformations: update_identifier_types and
\* the match on op
visit_binary_transformed(op, lhs, rhs, lhs_ty, rhs_ty, res, t) ==
    LET result_type == binary_result_type(op, res.l, res.r) IN
    IF ~t.ok THEN t
    ELSE IF result_type.ok
    THEN Ok(update_identifier_types(
              update_identifier_types(t.st, lhs, lhs_ty, res.l),
              rhs, rhs_ty, res.r),
            result_type.ty)
    ELSE Err(update_identifier_types(
               update_identifier_types(t.st, lhs, lhs_ty, res.l),
               rhs, rhs_ty, res.r),
             result_type.err)

\* visit_binary after resolve_numeric_types
visit_binary_resolved(s, op, lhs, rhs, lhs_ty, rhs_ty, res) ==
    IF ~res.ok THEN Err(s, res.err)
    ELSE visit_binary_transformed(op, lhs, rhs, lhs_ty, rhs_ty, res,
           transform_operand(
             transform_operand(
               Ok(visit_binary_context(s, lhs, rhs, lhs_ty, rhs_ty, res), UnitT),
               lhs, lhs_ty, res.l),
             rhs, rhs_ty, res.r))

\* visit_binary after rhs.accept(self)
visit_binary_rhs(op, lhs, rhs, lhs_ty, r) ==
    IF ~r.ok THEN r
    ELSE visit_binary_resolved(r.st, op, lhs, rhs, lhs_ty, r.ty,
                               resolve_numeric_types(r.st, lhs_ty, r.ty))

\* visit_binary after lhs.accept(self)
visit_binary_lhs(op, lhs, rhs, l) ==
    IF ~l.ok THEN l
    ELSE IF ~ValidExpr(l.st, rhs)
    THEN Err(l.st, generic_error("Invalid right-hand expression reference"))
    ELSE visit_binary_rhs(op, lhs, rhs, l.ty, accept_expr(l.st, l.st.expr_pool[rhs]))

visit_binary(s, op, lhs, rhs) ==
    IF ~ValidExpr(s, lhs)
    THEN Err(s, generic_error("Invalid left-hand expression reference"))
    ELSE visit_binary_lhs(op, lhs, rhs, accept_expr(s, s.expr_pool[lhs]))

\* the pre-scan of type_check and visit_block: the first explicit Int64 or
\* UInt64 annotation of a val/var among the statements
NumericDecls(s, statements) ==
    {i \in 1..Len(statements) :
        /\ ValidStmt(s, statements[i])
        /\ s.stmt_pool[statements[i]].kind \in {"Val", "Var"}
        /\ s.stmt_pool[statements[i]].decl \in {Int64T, UInt64T}}

global_numeric_type(s, statements) ==
    IF NumericDecls(s, statements) = {} THEN NoneT
    ELSE LET i == CHOOSE i \in NumericDecls(s, statements) :
                      \A j \in NumericDecls(s, statements) : i <= j
         IN  s.stmt_pool[statements[i]].decl

\* visit_block's loop after the accept of a `return e`
visit_block_returned(statements, i, last_empty, last, r) ==
    IF ~r.ok THEN r
    ELSE IF last_empty
    THEN visit_block_statements(r.st, statements, i + 1, FALSE, r.ty)
    ELSE IF last # NoneT /\ last # r.ty
    THEN Err(r.st, with_context(type_mismatch(last, r.ty), "return statement"))
    ELSE visit_block_statements(r.st, statements, i + 1, last_empty, r.ty)

\* visit_block's loop after the accept of any other statement
visit_block_accepted(statements, i, last_empty, r) ==
    IF ~r.ok THEN r
    ELSE visit_block_statements(r.st, statements, i + 1, last_empty, r.ty)

\* the loop of visit_block from statement i on; last = NoneT is `None`
visit_block_statements(s, statements, i, last_empty, last) ==
    IF i > Len(statements) THEN Ok(s, last)
    ELSE
    IF ~ValidStmt(s, statements[i])
    THEN Err(s, generic_error("Invalid statement reference in block"))
    ELSE
    LET stmt == s.stmt_pool[statements[i]] IN
    IF stmt.kind = "Return" /\ stmt.expr = 0
    THEN visit_block_statements(s, statements, i + 1, last_empty, UnitT)
    ELSE IF stmt.kind = "Return"
    THEN IF ~ValidExpr(s, stmt.expr)
         THEN Err(s, generic_error("Invalid expression reference in return"))
         ELSE visit_block_returned(statements, i, last_empty, last,
                                   accept_expr(s, s.expr_pool[stmt.expr]))
    ELSE visit_block_accepted(statements, i, last_empty, accept_stmt(s, stmt))

\* visit_block after the loop: the hint is restored on this path only
visit_block_done(original_hint, r) ==
    IF ~r.ok THEN r
    ELSE IF r.ty # NoneT THEN Ok([r.st EXCEPT !.type_hint = original_hint], r.ty)
    ELSE Err([r.st EXCEPT !.type_hint = original_hint],
             generic_error("Empty block - no return value"))

visit_block(s, statements) ==
    Observed("visit_block", "", s,
    LET s0 == [s EXCEPT !.type_cache = EmptyMap]
        g == global_numeric_type(s, statements)
    IN  visit_block_done(s.type_hint,
          visit_block_statements(
            IF g # NoneT THEN [s0 EXCEPT !.type_hint = g] ELSE s0,
            statements, 1, TRUE, NoneT)))

IsEmptyBlock(s, e) == s.expr_pool[e].kind = "Block" /\ s.expr_pool[e].items = <<>>

\* visit_if_elif_else after the accept of block i
visit_branches_accepted(blocks, i, block_types, r) ==
    IF ~r.ok THEN r
    ELSE visit_branches(r.st, blocks, i + 1, Append(block_types, r.ty))

\* visit_branches reporting a difference between branch types as an error
visit_branches_strict(s, blocks, i, block_types) ==
    IF i > Len(blocks)
    THEN IF block_types = <<>> THEN Ok(s, UnitT)
         ELSE IF \E j \in 2..Len(block_types) : block_types[j] # block_types[1]
         THEN Err(s, type_mismatch(block_types[1], UnitT))
         ELSE Ok(s, block_types[1])
    ELSE IF ~ValidExpr(s, blocks[i])
    THEN Err(s, generic_error("Invalid block expression reference"))
    ELSE IF IsEmptyBlock(s, blocks[i])
    THEN visit_branches(s, blocks, i + 1, block_types)
    ELSE visit_branches_accepted(blocks, i, block_types,
                                 accept_expr(s, s.expr_pool[blocks[i]]))

\* the then, elif and else blocks in order; block_types collects the types
visit_branches(s, blocks, i, block_types) ==
    IF i > Len(blocks)
    THEN IF block_types = <<>> THEN Ok(s, UnitT)
         ELSE IF \E j \in 2..Len(block_types) : block_types[j] # block_types[1]
         THEN Ok(s, UnitT)
         ELSE Ok(s, block_types[1])
    ELSE IF ~ValidExpr(s, blocks[i])
    THEN Err(s, generic_error("Invalid block expression reference"))
    ELSE IF IsEmptyBlock(s, blocks[i])
    THEN visit_branches(s, blocks, i + 1, block_types)
    ELSE visit_branches_accepted(blocks, i, block_types,
                                 accept_expr(s, s.expr_pool[blocks[i]]))

visit_if_elif_else(s, cond, then_block, elif_blocks, else_block) ==
    visit_branches(s, <<then_block>> \o elif_blocks \o <<else_block>>, 1, <<>>)

\* visit_assign after rhs.accept(self)
visit_assign_rhs(lhs_ty, r) ==
    IF ~r.ok THEN r
    ELSE IF lhs_ty # r.ty
    THEN Err(r.st, with_context(type_mismatch(lhs_ty, r.ty), "assignment"))
    ELSE Ok(r.st, lhs_ty)

\* visit_assign after lhs.accept(self)
visit_assign_lhs(rhs, l) ==
    IF ~l.ok THEN l
    ELSE IF ~ValidExpr(l.st, rhs)
    THEN Err(l.st, generic_error("Invalid right-hand expression reference"))
    ELSE visit_assign_rhs(l.ty, accept_expr(l.st, l.st.expr_pool[rhs]))

visit_assign(s, lhs, rhs) ==
    IF ~ValidExpr(s, lhs)
    THEN Err(s, generic_error("Invalid left-hand expression reference"))
    ELSE visit_assign_lhs(rhs, accept_expr(s, s.expr_pool[lhs]))

ReturnTypeOf(fun) ==
    IF fun.return_type = NoneT THEN UnknownT ELSE fun.return_type

\* visit_call after `self.type_check(fun.clone())?`
visit_call_checked(fun, r) ==
    IF ~r.ok THEN r
    ELSE Ok(pop_context(r.st), ReturnTypeOf(fun))

visit_call(s, fn_name, args) ==
    Observed("visit_call", fn_name, s,
    LET unchecked == \/ fn_name \notin DOMAIN s.is_checked_fn
                     \/ s.is_checked_fn[fn_name] = NoneT
    IN  IF has_fn(s, fn_name)
        THEN visit_call_checked(get_fn(s, fn_name),
               IF unchecked
               THEN type_check(push_context(s), get_fn(s, fn_name))
               ELSE Ok(push_context(s), UnitT))
        ELSE Err(pop_context(push_context(s)), not_found("Function", fn_name)))

\* visit_array_literal's first loop after visit_expr of element i
visit_elements_visited(elements, i, element_type_hint, original_hint, element_types, r) ==
    IF ~r.ok THEN r
    ELSE visit_elements([r.st EXCEPT !.type_hint = original_hint],
                        elements, i + 1, element_type_hint, original_hint,
                        Append(element_types, r.ty))

\* first loop of visit_array_literal: each element under the element hint
visit_elements(s, elements, i, element_type_hint, original_hint, element_types) ==
    IF i > Len(elements) THEN [st |-> s, ok |-> TRUE, ty |-> element_types, err |-> NoError]
    ELSE visit_elements_visited(elements, i, element_type_hint, original_hint,
                                element_types,
                                visit_expr(IF element_type_hint # NoneT
                                           THEN [s EXCEPT !.type_hint = element_type_hint]
                                           ELSE s,
                                           elements[i]))

RECURSIVE infer_elements(_, _, _, _, _)
\* second loop of visit_array_literal after the transformation of element i
infer_elements_transformed(elements, i, expected, element_types, t) ==
    IF ~t.ok THEN t
    ELSE infer_elements(t.st, elements, i + 1, expected, element_types)

\* second loop of visit_array_literal, run under an Array hint
infer_elements(s, elements, i, expected, element_types) ==
    IF i > Len(elements) THEN [st |-> s, ok |-> TRUE, ty |-> element_types, err |-> NoError]
    ELSE IF element_types[i] = NumberT
    THEN infer_elements_transformed(elements, i, expected,
                                    [element_types EXCEPT ![i] = expected],
                                    transform_numeric_expr(s, elements[i], expected))
    ELSE IF element_types[i] = expected
    THEN infer_elements_transformed(elements, i, expected, element_types,
                                    IF IsNumberNode(s, elements[i])
                                    THEN transform_numeric_expr(s, elements[i], expected)
                                    ELSE Ok(s, UnitT))
    ELSE IF element_types[i] = UnknownT
    THEN infer_elements(s, elements, i + 1, expected,
                        [element_types EXCEPT ![i] = expected])
    ELSE IF \/ (element_types[i] = Int64T /\ expected = UInt64T)
            \/ (element_types[i] = UInt64T /\ expected = Int64T)
    THEN Err(s, array_error("Cannot mix signed and unsigned integers in array"))
    ELSE Err(s, array_error("Array element has unexpected type"))

\* visit_array_literal returning a type list of one element type
visit_array_literal_inferred_single(original_hint, size, r) ==
    IF ~r.ok THEN r
    ELSE IF \E i \in 1..Len(r.ty) : r.ty[i] # r.ty[1]
    THEN Err([r.st EXCEPT !.type_hint = original_hint],
             array_error("Array elements must have the same type"))
    ELSE Ok([r.st EXCEPT !.type_hint = original_hint], ArrayT(<<r.ty[1]>>, size))

\* visit_array_literal after both loops: restore the hint, compare the types
visit_array_literal_inferred(original_hint, size, r) ==
    IF ~r.ok THEN r
    ELSE IF \E i \in 1..Len(r.ty) : r.ty[i] # r.ty[1]
    THEN Err([r.st EXCEPT !.type_hint = original_hint],
             array_error("Array elements must have the same type"))
    ELSE Ok([r.st EXCEPT !.type_hint = original_hint], ArrayT(r.ty, size))

\* visit_array_literal after the first loop
visit_array_literal_visited(original_hint, elements, r) ==
    IF ~r.ok THEN r
    ELSE visit_array_literal_inferred(original_hint, Len(elements),
           IF original_hint.k = "Array" /\ original_hint.elems # <<>>
           THEN infer_elements(r.st, elements, 1, original_hint.elems[1], r.ty)
           ELSE r)

visit_array_literal(s, elements) ==
    Observed("visit_array_literal", "", s,
    IF elements = <<>>
    THEN Err(s, array_error("Empty array literals are not supported"))
    ELSE visit_array_literal_visited(s.type_hint, elements,
           visit_elements(s, elements, 1,
                          IF s.type_hint.k = "Array" /\ s.type_hint.elems # <<>>
                          THEN s.type_hint.elems[1] ELSE NoneT,
                          s.type_hint, <<>>)))

\* visit_array_access after the index check
visit_array_access_indexed(array_type, t) ==
    IF ~t.ok THEN t
    ELSE IF array_type.k = "Array"
    THEN IF array_type.elems = <<>>
         THEN Err(t.st, array_error("Cannot access elements of empty array"))
         ELSE Ok(t.st, array_type.elems[1])
    ELSE Err(t.st, array_error("Cannot index into non-array type"))

\* visit_array_access after visit_expr(index): restore the hint, then the
\* index must be an integer
visit_array_access_index(array_type, index, original_hint, i) ==
    IF ~i.ok THEN i
    ELSE visit_array_access_indexed(array_type,
           IF i.ty = NumberT
           THEN transform_numeric_expr([i.st EXCEPT !.type_hint = original_hint],
                                       index, UInt64T)
           ELSE IF i.ty \in {UnknownT, UInt64T, Int64T}
           THEN Ok([i.st EXCEPT !.type_hint = original_hint], UnitT)
           ELSE Err([i.st EXCEPT !.type_hint = original_hint],
                    array_error("Array index must be an integer type")))

\* visit_array_access after visit_expr(array)
visit_array_access_array(index, a) ==
    IF ~a.ok THEN a
    ELSE visit_array_access_index(a.ty, index, a.st.type_hint,
           visit_expr([a.st EXCEPT !.type_hint = UInt64T], index))

visit_array_access(s, array, index) ==
    Observed("visit_array_access", "", s,
    visit_array_access_array(index, visit_expr(s, array)))

accept_expr(s, expr) ==
    CASE expr.kind = "Binary" -> visit_binary(s, expr.op, expr.lhs, expr.rhs)
      [] expr.kind = "Block" -> visit_block(s, expr.items)
      [] expr.kind = "IfElifElse" ->
            visit_if_elif_else(s, expr.lhs, expr.rhs, expr.items, expr.third)
      [] expr.kind = "Assign" -> visit_assign(s, expr.lhs, expr.rhs)
      [] expr.kind = "Identifier" -> visit_identifier(s, expr.name)
      [] expr.kind = "Call" -> visit_call(s, expr.name, expr.lhs)
      [] expr.kind = "Int64" -> Ok(s, Int64T)
      [] expr.kind = "UInt64" -> Ok(s, UInt64T)
      [] expr.kind = "Number" -> visit_number_literal(s, expr.sym)
      [] expr.kind = "String" -> Ok(s, StringT)
      [] expr.kind \in {"True", "False"} -> Ok(s, BoolT)
      [] expr.kind = "Null" -> Ok(s, AnyT)
      [] expr.kind = "ExprList" -> Ok(s, UnitT)
      [] expr.kind = "ArrayLiteral" -> visit_array_literal(s, expr.items)
      [] expr.kind = "ArrayAccess" -> visit_array_access(s, expr.lhs, expr.rhs)

\* process_val_type after the visit of the initialiser
process_val_type_visited(name, type_decl, r) ==
    IF ~r.ok THEN r
    ELSE IF r.ty = UnitT THEN Err(r.st, type_mismatch(UnknownT, r.ty))
    ELSE IF r.ty = NoneT THEN Ok(r.st, UnitT)
    ELSE IF type_decl = UnknownT \/ type_decl = NoneT
    THEN Ok(set_var(r.st, name, r.ty), UnitT)
    ELSE IF type_decl # r.ty THEN Err(r.st, type_mismatch(type_decl, r.ty))
    ELSE Ok(set_var(r.st, name, r.ty), UnitT)

process_val_type(s, name, type_decl, expr) ==
    process_val_type_visited(name, type_decl,
        IF expr = 0 THEN Ok(s, NoneT) ELSE visit_expr(s, expr))

visit_var(s, name, type_decl, expr) ==
    then_unit(process_val_type(s, name, type_decl, expr))

\* visit_val after apply_type_transformations: bind the name, restore the hint
visit_val_transformed(name, final_type, old_hint, t) ==
    IF ~t.ok THEN t
    ELSE Ok([set_var(t.st, name, final_type) EXCEPT !.type_hint = old_hint], UnitT)

\* visit_val after visit_expr of the initialiser
visit_val_visited(name, type_decl, expr, old_hint, r) ==
    IF ~r.ok THEN r
    ELSE visit_val_transformed(name, determine_final_type(type_decl, r.ty), old_hint,
           apply_type_transformations(
             update_variable_expr_mapping(r.st, name, expr, r.ty),
             type_decl, r.ty, expr))

visit_val(s, name, type_decl, expr) ==
    Observed("visit_val", name, s,
    visit_val_visited(name, type_decl, expr, s.type_hint,
                      visit_expr(setup_type_hint_for_val(s, type_decl), expr)))

visit_return(s, expr) ==
    IF expr = 0 THEN Ok(s, UnitT)
    ELSE IF ~ValidExpr(s, expr)
    THEN Err(s, generic_error("Invalid expression reference in return"))
    ELSE then_unit(accept_expr(s, s.expr_pool[expr]))

visit_expression_stmt(s, expr) ==
    IF ~ValidExpr(s, expr)
    THEN Err(s, generic_error("Invalid expression reference in statement"))
    ELSE accept_expr(s, s.expr_pool[expr])

\* visit_for after process_val_type of the loop variable
visit_for_init(body, p) ==
    IF ~p.ok THEN p
    ELSE IF ~ValidExpr(p.st, body)
    THEN Err(p.st, generic_error("Invalid body expression reference"))
    \* the body's result is returned after pop_context
    ELSE [accept_expr(p.st, p.st.expr_pool[body]) EXCEPT !.st = pop_context(@)]

\* visit_for after range.accept(self)
visit_for_range(init, range, body, r) ==
    IF ~r.ok THEN r
    ELSE visit_for_init(body, process_val_type(r.st, init, r.ty, range))

visit_for(s, init, cond, range, body) ==
    Observed("visit_for", init, s,
    IF ~ValidExpr(s, range)
    THEN Err(push_context(s), generic_error("Invalid range expression reference"))
    ELSE visit_for_range(init, range, body,
                         accept_expr(push_context(s), s.expr_pool[range])))

visit_while(s, cond, body) ==
    IF ~ValidExpr(s, body)
    THEN Err(s, generic_error("Invalid body expression reference in while"))
    ELSE accept_expr(s, s.expr_pool[body])

accept_stmt(s, stmt) ==
    CASE stmt.kind = "Expression" -> visit_expression_stmt(s, stmt.expr)
      [] stmt.kind = "Var" -> visit_var(s, stmt.name, stmt.decl, stmt.expr)
      [] stmt.kind = "Val" -> visit_val(s, stmt.name, stmt.decl, stmt.expr)
      [] stmt.kind = "Return" -> visit_return(s, stmt.expr)
      [] stmt.kind = "For" -> visit_for(s, stmt.name, stmt.cond, stmt.range, stmt.body)
      [] stmt.kind = "While" -> visit_while(s, stmt.cond, stmt.body)
      [] stmt.kind \in {"Break", "Continue"} -> Ok(s, UnitT)

(***************************************************************************)
(* finalize_number_types                                                   *)
(***************************************************************************)
\* update_var_type for every variable mapped to expression e
\* visit_stmt: a StmtRef outside the pool is visited as Stmt::Break
\* (`.unwrap_or(&Stmt::Break)`)
visit_stmt(s, stmt) ==
    accept_stmt(s, IF ValidStmt(s, stmt) THEN s.stmt_pool[stmt] ELSE SBreak)

RECURSIVE update_mapped_vars(_, _, _, _)
update_mapped_vars(s, names, e, ty) ==
    IF names = {} THEN s
    ELSE LET n == CHOOSE n \in names : TRUE IN
         update_mapped_vars(IF s.variable_expr_mapping[n] = e
                            THEN update_var_type(s, n, ty) ELSE s,
                            names \ {n}, e, ty)

RECURSIVE finalize_recorded(_, _, _)
\* first pass after transform_numeric_expr of the i-th recorded node
finalize_recorded_transformed(context_info, i, t) ==
    IF ~t.ok THEN t
    ELSE finalize_recorded(
           update_mapped_vars(t.st, DOMAIN t.st.variable_expr_mapping,
                              context_info[i].ref, context_info[i].ty),
           context_info, i + 1)

\* first pass: the recorded usage contexts, in the order they were pushed
finalize_recorded(s, context_info, i) ==
    IF i > Len(context_info) THEN Ok(s, UnitT)
    ELSE IF IsNumberNode(s, context_info[i].ref)
    THEN finalize_recorded_transformed(context_info, i,
           transform_numeric_expr(s, context_info[i].ref, context_info[i].ty))
    ELSE finalize_recorded(s, context_info, i + 1)

\* second pass: target type of a Number node the usage contexts do not name
remaining_target_type(s, e) ==
    LET typed == {n \in DOMAIN s.variable_expr_mapping :
                     /\ s.variable_expr_mapping[n] = e
                     /\ has_var(s, n)
                     /\ get_var(s, n) # NumberT}
    IN  IF typed # {} THEN get_var(s, CHOOSE n \in typed : TRUE)
        ELSE IF s.type_hint # NoneT THEN s.type_hint
        ELSE UInt64T

RECURSIVE finalize_remaining(_, _, _, _)
\* second pass after transform_numeric_expr of node i
finalize_remaining_transformed(context_info, i, expr_len, target_type, t) ==
    IF ~t.ok THEN t
    ELSE finalize_remaining(
           update_mapped_vars(t.st, DOMAIN t.st.variable_expr_mapping,
                              i, target_type),
           context_info, i + 1, expr_len)

finalize_remaining(s, context_info, i, expr_len) ==
    IF i > expr_len THEN Ok(s, UnitT)
    ELSE IF /\ IsNumberNode(s, i)
            /\ ~\E j \in 1..Len(context_info) : context_info[j].ref = i
    THEN finalize_remaining_transformed(context_info, i, expr_len,
           remaining_target_type(s, i),
           transform_numeric_expr(s, i, remaining_target_type(s, i)))
    ELSE finalize_remaining(s, context_info, i + 1, expr_len)

\* finalize_number_types after the first pass
finalize_number_types_recorded(context_info, r) ==
    IF ~r.ok THEN r
    ELSE finalize_remaining(r.st, context_info, 1, Len(r.st.expr_pool))

finalize_number_types(s) ==
    finalize_number_types_recorded(s.number_usage_context,
        finalize_recorded(s, s.number_usage_context, 1))

(***************************************************************************)
(* type_check                                                              *)
(***************************************************************************)
\* the statement loop of type_check after the accept of statement i
type_check_accepted(statements, i, res) ==
    IF ~res.ok THEN res
    ELSE type_check_statements(res.st, statements, i + 1, res.ty)

\* the statement loop of type_check from statement i on
type_check_statements(s, statements, i, last) ==
    IF i > Len(statements) THEN Ok(s, last)
    ELSE IF ~ValidStmt(s, statements[i])
    THEN Err(s, generic_error("Invalid statement reference"))
    ELSE type_check_accepted(statements, i,
                             accept_stmt(s, s.stmt_pool[statements[i]]))

RECURSIVE set_parameters(_, _, _)
set_parameters(s, parameter, i) ==
    IF i > Len(parameter) THEN s
    ELSE set_parameters(set_var(s, parameter[i].name, parameter[i].ty),
                        parameter, i + 1)

\* type_check after finalize_number_types: the declared return type, then
\* is_checked_fn.insert(name, Some(last))
type_check_finalized(func, last, f) ==
    IF ~f.ok THEN f
    ELSE IF func.return_type # NoneT /\ last # func.return_type
    THEN Err(f.st, type_mismatch(func.return_type, last))
    ELSE Ok([f.st EXCEPT !.is_checked_fn = Put(@, func.name, last)], last)

\* type_check after the statement loop; an Err of the loop is returned as is
type_check_body(func, original_hint, body) ==
    IF ~body.ok THEN body
    ELSE type_check_finalized(func, body.ty,
           \* pop_context, call_depth -= 1 and the restore of the hint
           finalize_number_types(
             [pop_context(body.st) EXCEPT !.call_depth = @ - 1,
                                          !.type_hint = original_hint]))

\* type_check from push_context on, over the statements of the body block
type_check_block(s, func, statements) ==
    LET g == global_numeric_type(s, statements)
        s2 == set_parameters(push_context(s), func.parameter, 1)
    IN  type_check_body(func, s.type_hint,
          type_check_statements(
            IF g # NoneT THEN [s2 EXCEPT !.type_hint = g] ELSE s2,
            statements, 1, UnitT))

\* type_check without the `already checked` arm: a checked function is
\* checked again
type_check_again(s, func) ==
    Observed("type_check", func.name, s,
    IF func.name \in DOMAIN s.is_checked_fn /\ s.is_checked_fn[func.name] = NoneT
    THEN Ok(s, UnknownT)
    ELSE
    LET s1 == [s EXCEPT !.is_checked_fn = Put(@, func.name, NoneT),
                        !.type_cache = EmptyMap,
                        !.call_depth = @ + 1,
                        !.body_visits = Append(@, func.name)]
    IN
    IF ~ValidStmt(s1, func.code)
    THEN Err(s1, generic_error("Invalid statement reference"))
    ELSE IF s1.stmt_pool[func.code].kind # "Expression"
    THEN Err(s1, generic_error("type_check: expected block statement"))
    ELSE IF ~ValidExpr(s1, s1.stmt_pool[func.code].expr)
    THEN Err(s1, generic_error("Invalid expression reference"))
    ELSE IF s1.expr_pool[s1.stmt_pool[func.code].expr].kind # "Block"
    THEN Err(s1, generic_error("type_check: expected block expression"))
    ELSE type_check_block(s1, func, s1.expr_pool[s1.stmt_pool[func.code].expr].items))

\* body_visits: the functions whose check went past the guard, in order
type_check(s, func) ==
    Observed("type_check", func.name, s,
    IF func.name \in DOMAIN s.is_checked_fn /\ s.is_checked_fn[func.name] # NoneT
    THEN Ok(s, s.is_checked_fn[func.name])
    ELSE IF func.name \in DOMAIN s.is_checked_fn
    THEN Ok(s, UnknownT)
    ELSE
    LET s1 == [s EXCEPT !.is_checked_fn = Put(@, func.name, NoneT),
                        !.type_cache = EmptyMap,
                        !.call_depth = @ + 1,
                        !.body_visits = Append(@, func.name)]
    IN
    IF ~ValidStmt(s1, func.code)
    THEN Err(s1, generic_error("Invalid statement reference"))
    ELSE IF s1.stmt_pool[func.code].kind # "Expression"
    THEN Err(s1, generic_error("type_check: expected block statement"))
    ELSE IF ~ValidExpr(s1, s1.stmt_pool[func.code].expr)
    THEN Err(s1, generic_error("Invalid expression reference"))
    ELSE IF s1.expr_pool[s1.stmt_pool[func.code].expr].kind # "Block"
    THEN Err(s1, generic_error("type_check: expected block expression"))
    ELSE type_check_block(s1, func, s1.expr_pool[s1.stmt_pool[func.code].expr].items))

(***************************************************************************)
(* The evaluator (interpreter/src/main.rs).  Objects live in shared cells  *)
(* (Rc<RefCell<Object>>): heap is the sequence of cells, a binding holds   *)
(* the address of its cell.  Every failure of this evaluator is a panic;   *)
(* an evaluation ends "ok" with the address of its value, or "panic".      *)
(* Arithmetic overflow panics in a debug build and wraps in a release      *)
(* build: build is chosen when the run starts.                             *)
(***************************************************************************)
Object(k, val) == [k |-> k, val |-> val, s |-> ""]
ObjInt64(v) == Object("Int64", v)
ObjUInt64(v) == Object("UInt64", v)
ObjBool(b) == Object("Bool", IF b THEN 1 ELSE 0)
ObjString(s) == [k |-> "String", val |-> 0, s |-> s]
ObjNull == Object("Null", 0)
ObjUnit == Object("Unit", 0)

\* Object::get_type
get_type(obj) == IF obj.k = "Null" THEN AnyT ELSE Ty(obj.k)

\* Environment: var maps a name to (mutable, cell); super_context is
\* Option<Box<Environment>>, a sequence of at most one Environment
Environment_new == [var |-> EmptyMap, super_context |-> <<>>]
new_block(env) == [var |-> EmptyMap, super_context |-> <<env>>]

EvaluationContext_new(build) ==
    [environment |-> Environment_new, heap |-> <<>>, build |-> build]

Done(c, addr) == [st |-> c, status |-> "ok", val |-> addr]
Panic(c) == [st |-> c, status |-> "panic", val |-> 0]

\* Rc::new(RefCell::new(obj))
NewCell(c, obj) ==
    Done([c EXCEPT !.heap = Append(@, obj)], Len(c.heap) + 1)

RECURSIVE Environment_get_val(_, _)
Environment_get_val(env, name) ==
    IF name \in DOMAIN env.var THEN env.var[name].cell
    ELSE IF env.super_context # <<>> THEN Environment_get_val(env.super_context[1], name)
    ELSE 0

Environment_set_val(c, name, value) ==
    IF name \in DOMAIN c.environment.var THEN Panic(c)
    ELSE Done([c EXCEPT !.environment.var =
                  Put(@, name, [mutable |-> FALSE, cell |-> value])], value)

Environment_set_var(c, name, value) ==
    IF name \in DOMAIN c.environment.var
    THEN LET exist == c.environment.var[name] IN
         IF ~exist.mutable THEN Panic(c)
         \* value.borrow() and then exist.borrow_mut() of the same RefCell
         ELSE IF exist.cell = value THEN Panic(c)
         ELSE IF get_type(c.heap[exist.cell]) # get_type(c.heap[value]) THEN Panic(c)
         ELSE IF c.heap[exist.cell].k \in {"Int64", "UInt64", "Bool", "String"}
         THEN Done([c EXCEPT !.heap[exist.cell] = c.heap[value]], value)
         ELSE Done(c, value)
    ELSE Done([c EXCEPT !.environment.var =
                  Put(@, name, [mutable |-> TRUE, cell |-> value])], value)

TwoPow == Pow2(IntBits)
WrapU64(v) == v % TwoPow
WrapI64(v) == ((v - I64_MIN) % TwoPow) + I64_MIN
Abs(v) == IF v < 0 THEN 0 - v ELSE v
\* Rust integer division truncates toward zero
TruncDiv(a, b) ==
    IF (a < 0) = (b < 0) THEN Abs(a) \div Abs(b) ELSE 0 - (Abs(a) \div Abs(b))

\* l op r on two integers of one width: [panic, val]
arithmetic(build, op, signed, l, r) ==
    LET exact == CASE op = "IAdd" -> l + r
                   [] op = "ISub" -> l - r
                   [] op = "IMul" -> l * r
                   [] op = "IDiv" -> IF r = 0 THEN 0 ELSE TruncDiv(l, r)
        fits == IF signed THEN exact >= I64_MIN /\ exact <= I64_MAX
                ELSE exact >= 0 /\ exact <= U64_MAX
        wrapped == IF signed THEN WrapI64(exact) ELSE WrapU64(exact)
    IN  IF op = "IDiv" /\ (r = 0 \/ ~fits) THEN [panic |-> TRUE, val |-> 0]
        ELSE IF ~fits /\ build = "debug" THEN [panic |-> TRUE, val |-> 0]
        ELSE [panic |-> FALSE, val |-> wrapped]

compare(op, l, r) ==
    CASE op = "EQ" -> l = r
      [] op = "NE" -> l # r
      [] op = "GE" -> l >= r
      [] op = "GT" -> l > r
      [] op = "LE" -> l <= r
      [] op = "LT" -> l < r

\* the match on op in evaluate's Binary arm, on two objects of one type
binary_op(c, op, l, r) ==
    IF op \in ArithOps
    THEN IF l.k \in {"Int64", "UInt64"}
         THEN LET a == arithmetic(c.build, op, l.k = "Int64", l.val, r.val) IN
              IF a.panic THEN Panic(c) ELSE NewCell(c, Object(l.k, a.val))
         ELSE Panic(c)
    ELSE IF op \in {"EQ", "NE"}
    THEN IF l.k \in {"Int64", "UInt64"} THEN NewCell(c, ObjBool(compare(op, l.val, r.val)))
         ELSE IF l.k = "String" THEN NewCell(c, ObjBool((op = "EQ") = (l.s = r.s)))
         ELSE Panic(c)
    ELSE IF op \in CompareOps
    THEN IF l.k \in {"Int64", "UInt64"} THEN NewCell(c, ObjBool(compare(op, l.val, r.val)))
         ELSE Panic(c)
    ELSE IF op = "LogicalAnd" /\ l.k = "Bool"
    THEN NewCell(c, ObjBool(l.val = 1 /\ r.val = 1))
    ELSE IF op = "LogicalOr" /\ l.k = "Bool"
    THEN NewCell(c, ObjBool(l.val = 1 \/ r.val = 1))
    ELSE Panic(c)

convert_object(e) ==
    CASE e.kind = "True" -> ObjBool(TRUE)
      [] e.kind = "False" -> ObjBool(FALSE)
      [] e.kind = "Int64" -> ObjInt64(e.val)
      [] e.kind = "UInt64" -> ObjUInt64(e.val)
      [] e.kind = "String" -> ObjString(e.name)

RECURSIVE evaluate(_, _, _, _)
RECURSIVE evaluate_block(_, _, _, _)
RECURSIVE evaluate_statements(_, _, _, _, _, _)

IsBlock(expr_pool, e) == e \in 1..Len(expr_pool) /\ expr_pool[e].kind = "Block"

\* the Binary arm after self.evaluate(rhs): operands of two types panic
evaluate_binary_rhs(op, lhs_val, rhs) ==
    IF rhs.status # "ok" THEN rhs
    ELSE IF get_type(rhs.st.heap[lhs_val]) # get_type(rhs.st.heap[rhs.val])
    THEN Panic(rhs.st)
    ELSE binary_op(rhs.st, op, rhs.st.heap[lhs_val], rhs.st.heap[rhs.val])

\* the Binary arm after self.evaluate(lhs)
evaluate_binary_lhs(stmt_pool, expr_pool, expr, lhs) ==
    IF lhs.status # "ok" THEN lhs
    ELSE evaluate_binary_rhs(expr.op, lhs.val,
                             evaluate(lhs.st, stmt_pool, expr_pool, expr.rhs))

\* the IfElse arm after self.evaluate(cond)
evaluate_if_cond(stmt_pool, expr_pool, expr, cond) ==
    IF cond.status # "ok" THEN cond
    ELSE IF cond.st.heap[cond.val].k # "Bool" THEN Panic(cond.st)
    ELSE IF ~IsBlock(expr_pool, expr.rhs) \/ ~IsBlock(expr_pool, expr.third)
    THEN Panic(cond.st)
    \* self.environment.new_block(); builds a frame and drops it
    ELSE IF cond.st.heap[cond.val].val = 1
    THEN evaluate_block(cond.st, stmt_pool, expr_pool, expr_pool[expr.rhs].items)
    ELSE evaluate_block(cond.st, stmt_pool, expr_pool, expr_pool[expr.third].items)

evaluate(c, stmt_pool, expr_pool, e) ==
    IF e \notin 1..Len(expr_pool) THEN Panic(c)
    ELSE
    LET expr == expr_pool[e] IN
    IF expr.kind = "Binary"
    THEN evaluate_binary_lhs(stmt_pool, expr_pool, expr,
                             evaluate(c, stmt_pool, expr_pool, expr.lhs))
    ELSE IF expr.kind \in {"Int64", "UInt64", "String", "True", "False"}
    THEN NewCell(c, convert_object(expr))
    \* self.environment.get_val(*s).unwrap()
    ELSE IF expr.kind = "Identifier"
    THEN IF Environment_get_val(c.environment, expr.name) = 0 THEN Panic(c)
         ELSE Done(c, Environment_get_val(c.environment, expr.name))
    \* IfElse(cond, then, else): an if without elif branches
    ELSE IF expr.kind = "IfElifElse" /\ expr.items = <<>>
    THEN evaluate_if_cond(stmt_pool, expr_pool, expr,
                          evaluate(c, stmt_pool, expr_pool, expr.lhs))
    ELSE IF expr.kind = "Block"
    THEN evaluate_block(c, stmt_pool, expr_pool, expr.items)
    ELSE Panic(c)

\* the Assign arm after self.evaluate(rhs): lhs.get_type() is the type of
\* the object lhs evaluates to, which is never TypeDecl::Identifier
evaluate_assign_rhs(r) == IF r.status # "ok" THEN r ELSE Panic(r.st)

\* the Assign arm after self.evaluate(lhs)
evaluate_assign_lhs(stmt_pool, expr_pool, rhs, l) ==
    IF l.status # "ok" THEN l
    ELSE evaluate_assign_rhs(evaluate(l.st, stmt_pool, expr_pool, rhs))

\* the Assign arm of evaluate_block
evaluate_assign(c, stmt_pool, expr_pool, lhs, rhs) ==
    evaluate_assign_lhs(stmt_pool, expr_pool, rhs,
                        evaluate(c, stmt_pool, expr_pool, lhs))

\* the loop of evaluate_block goes on with `last` set to the value of v
evaluate_next_value(stmt_pool, expr_pool, statements, i, v) ==
    IF v.status # "ok" THEN v
    ELSE evaluate_statements(v.st, stmt_pool, expr_pool, statements, i + 1, v.val)

\* the loop of evaluate_block goes on with `last` as it was
evaluate_next_keep(stmt_pool, expr_pool, statements, i, last, b) ==
    IF b.status # "ok" THEN b
    ELSE evaluate_statements(b.st, stmt_pool, expr_pool, statements, i + 1, last)

\* the Val arm after set_val: last = Unit
evaluate_val_bound(stmt_pool, expr_pool, statements, i, b) ==
    IF b.status # "ok" THEN b
    ELSE LET u == NewCell(b.st, ObjUnit) IN
         evaluate_statements(u.st, stmt_pool, expr_pool, statements, i + 1, u.val)

\* the Val arm after self.evaluate(expr)
evaluate_val_value(stmt_pool, expr_pool, statements, i, name, value) ==
    IF value.status # "ok" THEN value
    ELSE evaluate_val_bound(stmt_pool, expr_pool, statements, i,
                            Environment_set_val(value.st, name, value.val))

\* the Var arm after the value is evaluated (Null without an initialiser)
evaluate_var_value(stmt_pool, expr_pool, statements, i, last, name, value) ==
    IF value.status # "ok" THEN value
    ELSE evaluate_next_keep(stmt_pool, expr_pool, statements, i, last,
                            Environment_set_var(value.st, name, value.val))

\* the Expression arm of evaluate_block: the match on the expression
evaluate_expression_stmt(c, stmt_pool, expr_pool, statements, i, last, e_ref) ==
    LET e == expr_pool[e_ref]
        v == NewCell(c, convert_object(e))
        obj == Environment_get_val(c.environment, e.name)
    IN
    IF e.kind = "Assign"
    THEN evaluate_next_keep(stmt_pool, expr_pool, statements, i, last,
                            evaluate_assign(c, stmt_pool, expr_pool, e.lhs, e.rhs))
    ELSE IF e.kind \in {"Int64", "UInt64", "String"}
    THEN evaluate_statements(v.st, stmt_pool, expr_pool, statements, i + 1, v.val)
    \* obj.is_null() panics
    ELSE IF e.kind = "Identifier"
    THEN IF obj = 0 \/ c.heap[obj].k = "Null" THEN Panic(c)
         ELSE evaluate_statements(c, stmt_pool, expr_pool, statements, i + 1, obj)
    ELSE evaluate_next_value(stmt_pool, expr_pool, statements, i,
                             IF e.kind = "Block"
                             THEN evaluate_block(c, stmt_pool, expr_pool, e.items)
                             ELSE evaluate(c, stmt_pool, expr_pool, e_ref))

\* the loop of evaluate_block from statement i on; last is a cell address
evaluate_statements(c, stmt_pool, expr_pool, statements, i, last) ==
    IF i > Len(statements) THEN Done(c, last)
    ELSE IF statements[i] \notin 1..Len(stmt_pool) THEN Panic(c)
    ELSE
    LET stmt == stmt_pool[statements[i]] IN
    IF stmt.kind = "Val"
    THEN evaluate_val_value(stmt_pool, expr_pool, statements, i, stmt.name,
                            evaluate(c, stmt_pool, expr_pool, stmt.expr))
    ELSE IF stmt.kind = "Var"
    THEN evaluate_var_value(stmt_pool, expr_pool, statements, i, last, stmt.name,
                            IF stmt.expr = 0 THEN NewCell(c, ObjNull)
                            ELSE evaluate(c, stmt_pool, expr_pool, stmt.expr))
    ELSE IF stmt.kind = "Return"
    THEN IF stmt.expr = 0 THEN NewCell(c, ObjUnit)
         ELSE evaluate(c, stmt_pool, expr_pool, stmt.expr)
    \* todo!("break"), todo!("while"), todo!("for"), todo!("continue")
    ELSE IF stmt.kind \in {"Break", "While", "For", "Continue"} THEN Panic(c)
    ELSE IF stmt.expr \notin 1..Len(expr_pool) THEN Panic(c)
    ELSE evaluate_expression_stmt(c, stmt_pool, expr_pool, statements, i, last,
                                  stmt.expr)

\* `let mut last = Rc::new(RefCell::new(Object::Unit))`, then the loop
evaluate_block(c, stmt_pool, expr_pool, statements) ==
    evaluate_statements(NewCell(c, ObjUnit).st, stmt_pool, expr_pool,
                        statements, 1, NewCell(c, ObjUnit).val)

\* evaluate_main after evaluate_block
evaluate_main_block(function, res) ==
    IF res.status # "ok" THEN res
    ELSE IF function.return_type = NoneT \/ function.return_type = UnitT
    THEN NewCell(res.st, ObjUnit)
    ELSE res

evaluate_main(c, stmt_pool, expr_pool, function) ==
    IF \/ function.code \notin 1..Len(stmt_pool)
       \/ stmt_pool[function.code].kind # "Expression"
       \/ ~IsBlock(expr_pool, stmt_pool[function.code].expr)
    THEN Panic(c)
    ELSE evaluate_main_block(function,
           evaluate_block(c, stmt_pool, expr_pool,
                          expr_pool[stmt_pool[function.code].expr].items))

(***************************************************************************)
(* Programs: what the parser hands to check_typing.                        *)
(***************************************************************************)
Program(function, statement, expression) ==
    [function |-> function, statement |-> statement, expression |-> expression]

Lit(n) == ENumber(Sym(FALSE, ToDigits(n)))
NegLit(n) == ENumber(Sym(TRUE, ToDigits(n)))

DeclChoices == {NoneT, UnknownT, Int64T, UInt64T}
ReturnChoices == {Int64T, UInt64T}
InitChoices == {Lit(5), EInt64(5), EUInt64(5), Lit(I64_MAX + 1)}
OperandChoices == {Lit(7), EInt64(7), EUInt64(7), NegLit(3)}

\* fn main() -> R { val a: T = L1; a + L2 }          (scenario S7 and variants)
ValBinProgram(T, R, L1, L2) ==
    Program(<< Function("main", <<>>, R, 3) >>,
            << SVal("a", T, 1), SExpression(4), SExpression(5) >>,
            << L1, EIdentifier("a"), L2, EBinary("IAdd", 2, 3), EBlock(<<1, 2>>) >>)

ValBinPrograms ==
    {ValBinProgram(T, R, L1, L2) :
        T \in DeclChoices, R \in ReturnChoices, L1 \in InitChoices, L2 \in OperandChoices}

\* S1: fn main() -> u64 { val a = 1u64; val b = 2u64; val c = a + b; c }
S1Program ==
    Program(<< Function("main", <<>>, UInt64T, 5) >>,
            << SVal("a", NoneT, 1),
               SVal("b", NoneT, 2),
               SVal("c", NoneT, 5),
               SExpression(6),
               SExpression(7) >>,
            << EUInt64(1),
               EUInt64(2),
               EIdentifier("a"),
               EIdentifier("b"),
               EBinary("IAdd", 3, 4),
               EIdentifier("c"),
               EBlock(<<1, 2, 3, 4>>) >>)

\* S2: fn main() -> i64 { val a: i64 = 12i64; val b: i64 = -10i64; a + b }
\* (the literals of the scenario scaled to IntBits)
S2Program ==
    Program(<< Function("main", <<>>, Int64T, 4) >>,
            << SVal("a", Int64T, 1),
               SVal("b", Int64T, 2),
               SExpression(5),
               SExpression(6) >>,
            << EInt64(12),
               EInt64(-10),
               EIdentifier("a"),
               EIdentifier("b"),
               EBinary("IAdd", 3, 4),
               EBlock(<<1, 2, 3>>) >>)

\* S3 and variants: fn main() -> R { if C { 1u64 } else { 2u64 } }
IfProgram(C, R) ==
    Program(<< Function("main", <<>>, R, 4) >>,
            << SExpression(2),
               SExpression(4),
               SExpression(6),
               SExpression(7) >>,
            << C,
               EUInt64(1),
               EBlock(<<1>>),
               EUInt64(2),
               EBlock(<<2>>),
               EIfElifElse(1, 3, <<>>, 5),
               EBlock(<<3>>) >>)

\* S4: fn main() -> u64 { var a = 0u64;
\*       for i in 0u64 to 4u64 { a = a + 1u64; if a > 2u64 { break } }; return a }
S4Program ==
    Program(<< Function("main", <<>>, UInt64T, 7) >>,
            << SVar("a", NoneT, 1),
               SExpression(8),
               SBreak,
               SExpression(14),
               SFor("i", 2, 3, 15),
               SReturn(16),
               SExpression(17) >>,
            << EUInt64(0),
               EUInt64(0),
               EUInt64(4),
               EIdentifier("a"),
               EIdentifier("a"),
               EUInt64(1),
               EBinary("IAdd", 5, 6),
               EAssign(4, 7),
               EIdentifier("a"),
               EUInt64(2),
               EBinary("GT", 9, 10),
               EBlock(<<3>>),
               EBlock(<<>>),
               EIfElifElse(11, 12, <<>>, 13),
               EBlock(<<2, 4>>),
               EIdentifier("a"),
               EBlock(<<1, 5, 6>>) >>)

\* fn main() -> R { var a = 0u64; return E }
ReturnProgram(R, E) ==
    Program(<< Function("main", <<>>, R, 3) >>,
            << SVar("a", NoneT, 1),
               SReturn(2),
               SExpression(3) >>,
            << EUInt64(0),
               E,
               EBlock(<<1, 2>>) >>)

\* S5: fn main() -> u64 { var x = 20u64; { var x = 10u64; x = x + 30u64 }; x = x + 1u64 }
\* (the literals of the scenario scaled to IntBits)
S5Program ==
    Program(<< Function("main", <<>>, UInt64T, 6) >>,
            << SVar("x", NoneT, 1),
               SVar("x", NoneT, 2),
               SExpression(7),
               SExpression(8),
               SExpression(13),
               SExpression(14) >>,
            << EUInt64(20),
               EUInt64(10),
               EIdentifier("x"),
               EIdentifier("x"),
               EUInt64(30),
               EBinary("IAdd", 4, 5),
               EAssign(3, 6),
               EBlock(<<2, 3>>),
               EIdentifier("x"),
               EIdentifier("x"),
               EUInt64(1),
               EBinary("IAdd", 10, 11),
               EAssign(9, 12),
               EBlock(<<1, 4, 5>>) >>)

\* fn main() -> u64 { var x = OUTER; { var x = INNER }; x }
ShadowVarProgram(OUTER, INNER) ==
    Program(<< Function("main", <<>>, UInt64T, 5) >>,
            << SVar("x", NoneT, 1),
               SVar("x", NoneT, 2),
               SExpression(3),
               SExpression(4),
               SExpression(5) >>,
            << OUTER,
               INNER,
               EBlock(<<2>>),
               EIdentifier("x"),
               EBlock(<<1, 3, 4>>) >>)

\* fn main() -> u64 { var x = OUTER; { val x = INNER }; x }
ShadowValProgram(OUTER, INNER) ==
    Program(<< Function("main", <<>>, UInt64T, 5) >>,
            << SVar("x", NoneT, 1),
               SVal("x", NoneT, 2),
               SExpression(3),
               SExpression(4),
               SExpression(5) >>,
            << OUTER,
               INNER,
               EBlock(<<2>>),
               EIdentifier("x"),
               EBlock(<<1, 3, 4>>) >>)

\* S6: fn fib(n: u64) -> u64 { if n <= 1u64 { n } else { fib(n-1u64) + fib(n-2u64) } }
\*     fn main() -> u64 { fib(2u64) }
S6Program ==
    Program(<< Function("fib", <<Param("n", UInt64T)>>, UInt64T, 4),
               Function("main", <<>>, UInt64T, 6) >>,
            << SExpression(4),
               SExpression(16),
               SExpression(18),
               SExpression(19),
               SExpression(22),
               SExpression(23) >>,
            << EIdentifier("n"),
               EUInt64(1),
               EBinary("LE", 1, 2),
               EIdentifier("n"),
               EBlock(<<1>>),
               EIdentifier("n"),
               EUInt64(1),
               EBinary("ISub", 6, 7),
               EExprList(<<8>>),
               ECall("fib", 9),
               EIdentifier("n"),
               EUInt64(2),
               EBinary("ISub", 11, 12),
               EExprList(<<13>>),
               ECall("fib", 14),
               EBinary("IAdd", 10, 15),
               EBlock(<<2>>),
               EIfElifElse(3, 5, <<>>, 17),
               EBlock(<<3>>),
               EUInt64(2),
               EExprList(<<20>>),
               ECall("fib", 21),
               EBlock(<<5>>) >>)

\* fn f(n: u64) -> u64 { val a = L1; f(n) }   fn main() -> u64 { f(2u64) }
RecProgram(L1) ==
    Program(<< Function("f", <<Param("n", UInt64T)>>, UInt64T, 3),
               Function("main", <<>>, UInt64T, 5) >>,
            << SVal("a", NoneT, 1),
               SExpression(4),
               SExpression(5),
               SExpression(8),
               SExpression(9) >>,
            << L1,
               EIdentifier("n"),
               EExprList(<<2>>),
               ECall("f", 3),
               EBlock(<<1, 2>>),
               EUInt64(2),
               EExprList(<<6>>),
               ECall("f", 7),
               EBlock(<<4>>) >>)

\* fn f() -> u64 { val a = L1; g() }   fn g() -> u64 { val b = L1; f() }
\* fn main() -> u64 { f() }
MutualProgram(L1) ==
    Program(<< Function("f", <<>>, UInt64T, 3),
               Function("g", <<>>, UInt64T, 6),
               Function("main", <<>>, UInt64T, 8) >>,
            << SVal("a", NoneT, 1),
               SExpression(3),
               SExpression(4),
               SVal("b", NoneT, 5),
               SExpression(7),
               SExpression(8),
               SExpression(10),
               SExpression(11) >>,
            << L1,
               EExprList(<<>>),
               ECall("g", 2),
               EBlock(<<1, 2>>),
               L1,
               EExprList(<<>>),
               ECall("f", 6),
               EBlock(<<4, 5>>),
               EExprList(<<>>),
               ECall("f", 9),
               EBlock(<<7>>) >>)

\* fn main() -> u64 { for i in 0u64 to 3u64 { OP1 + 1u64 }; 1u64 }
ForProgram(OP1) ==
    Program(<< Function("main", <<>>, UInt64T, 4) >>,
            << SExpression(5),
               SFor("i", 1, 2, 6),
               SExpression(7),
               SExpression(8) >>,
            << EUInt64(0),
               EUInt64(3),
               OP1,
               EUInt64(1),
               EBinary("IAdd", 3, 4),
               EBlock(<<1>>),
               EUInt64(1),
               EBlock(<<2, 3>>) >>)

\* fn main() -> u64 { g(ARGS) }   fn g(p: u64) -> u64 { val x = 1; OP1 + 1u64 }
\* in either order; the argument nodes are the last nodes of the pool
CallProgram(main_first, ARGS, OP1) ==
    LET main == Function("main", <<>>, UInt64T, 5)
        g == Function("g", <<Param("p", UInt64T)>>, UInt64T, 3)
    IN  Program(IF main_first THEN << main, g >> ELSE << g, main >>,
                << SVal("x", NoneT, 1),
                   SExpression(4),
                   SExpression(5),
                   SExpression(7),
                   SExpression(8) >>,
                << Lit(1),
                   OP1,
                   EUInt64(1),
                   EBinary("IAdd", 2, 3),
                   EBlock(<<1, 2>>),
                   EExprList([i \in 1..Len(ARGS) |-> 8 + i]),
                   ECall("g", 6),
                   EBlock(<<4>>) >> \o ARGS)

\* fn main() -> R { FIRST; val b = 2u64; 3u64 } where FIRST is statement
\*   1: return E    2: { return E }    3: if true { return E } else { return E }
\* (E = 0: a `return` without operand)
NestedReturnProgram(FIRST, R, E) ==
    Program(<< Function("main", <<>>, R, 6) >>,
            << SReturn(E),
               SExpression(2),
               SExpression(5),
               SVal("b", NoneT, 6),
               SExpression(7),
               SExpression(8) >>,
            << EUInt64(1),
               EBlock(<<1>>),
               ETrue,
               EBlock(<<1>>),
               EIfElifElse(3, 2, <<>>, 4),
               EUInt64(2),
               EUInt64(3),
               EBlock(<<FIRST, 4, 5>>) >>)

\* fn main() -> T { var a = A; a OP B }  with typed literals A and B
ArithProgram(T, OP, A, B) ==
    Program(<< Function("main", <<>>, T, 3) >>,
            << SVar("a", NoneT, 1),
               SExpression(4),
               SExpression(5) >>,
            << A,
               EIdentifier("a"),
               B,
               EBinary(OP, 2, 3),
               EBlock(<<1, 2>>) >>)

Int64Operands == {EInt64(v) : v \in {I64_MIN, -1, 0, 3, I64_MAX}}
UInt64Operands == {EUInt64(v) : v \in {0, 1, 3, U64_MAX}}

\* fn main() -> u64 { var sum = 0u64; for i in S to E { sum = sum + i }; sum }
SumForProgram(S, E) ==
    Program(<< Function("main", <<>>, UInt64T, 5) >>,
            << SVar("sum", NoneT, 1),
               SExpression(8),
               SFor("i", 2, 3, 9),
               SExpression(10),
               SExpression(11) >>,
            << EUInt64(0),
               EUInt64(S),
               EUInt64(E),
               EIdentifier("sum"),
               EIdentifier("sum"),
               EIdentifier("i"),
               EBinary("IAdd", 5, 6),
               EAssign(4, 7),
               EBlock(<<2>>),
               EIdentifier("sum"),
               EBlock(<<1, 3, 4>>) >>)

\* fn main() -> u64 { DECL x = 1u64; x = V; x }      (NESTED = FALSE)
\* fn main() -> u64 { DECL x = 1u64; { x = V }; x }  (NESTED = TRUE)
\* DECL is "Var" or "Val"
AssignProgram(DECL, NESTED, V) ==
    Program(<< Function("main", <<>>, UInt64T, IF NESTED THEN 6 ELSE 5) >>,
            << [SVar("x", NoneT, 1) EXCEPT !.kind = DECL],
               SExpression(4),
               SExpression(5),
               SExpression(6),
               SExpression(7),
               SExpression(8) >>,
            << EUInt64(1),
               EIdentifier("x"),
               V,
               EAssign(2, 3),
               EBlock(<<2>>),
               EIdentifier("x"),
               EBlock(<<1, 2, 4>>),
               EBlock(<<1, 3, 4>>) >>)

\* fn x() -> T { LIT }   fn main() -> u64 { [var x: T;] USE }
\* where USE is   x   (POS = 3),   x + 1u64   (POS = 5)   or
\* if x { 1u64 } else { 2u64 }   (POS = 9, T = bool); the name x type-checks
\* as the function x; DECLARED: main holds the `var x: T` without initialiser
IdentifierProgram(DECLARED, POS) ==
    LET T == IF POS = 9 THEN BoolT ELSE UInt64T IN
    Program(<< Function("x", <<>>, T, 2), Function("main", <<>>, UInt64T, 5) >>,
            << SExpression(1),
               SExpression(2),
               SVar("x", T, 0),
               SExpression(POS),
               SExpression(10),
               SExpression(4),
               SExpression(7) >>,
            << IF POS = 9 THEN ETrue ELSE EUInt64(1),
               EBlock(<<1>>),
               EIdentifier("x"),
               EUInt64(1),
               EBinary("IAdd", 3, 4),
               EBlock(<<6>>),
               EUInt64(2),
               EBlock(<<7>>),
               EIfElifElse(3, 6, <<>>, 8),
               EBlock(IF DECLARED THEN <<3, 4>> ELSE <<4>>) >>)

\* a pool with a function g and malformed parts:
\*   statement 1: { 1u64 } (the body of g)      2: 1u64
\*             3: val a = 1u64                   4: an expression outside the pool
\*             5: a block holding a statement outside the pool
\*             6: g()
\*   expression 6: 1u64 + (an expression outside the pool)
AssertionProgram ==
    Program(<< Function("g", <<>>, UInt64T, 1) >>,
            << SExpression(4),
               SExpression(1),
               SVal("a", NoneT, 1),
               SExpression(7),
               SExpression(5),
               SExpression(3) >>,
            << EUInt64(1),
               EExprList(<<>>),
               ECall("g", 2),
               EBlock(<<2>>),
               EBlock(<<7>>),
               EBinary("IAdd", 1, 7) >>)

\* fn main() -> T { val x = 5; x + RHS; [val y = LATER;] x }
\* T is the type of the typed literal RHS; LATER = ENull: no `val y`
BackPropProgram(RHS, LATER) ==
    Program(<< Function("main", <<>>, Ty(RHS.kind), 5) >>,
            << SVal("x", NoneT, 1),
               SExpression(4),
               SVal("y", NoneT, 5),
               SExpression(6),
               SExpression(7) >>,
            << Lit(5),
               EIdentifier("x"),
               RHS,
               EBinary("IAdd", 2, 3),
               LATER,
               EIdentifier("x"),
               EBlock(IF LATER = ENull THEN <<1, 2, 4>> ELSE <<1, 2, 3, 4>>) >>)

\* fn main() -> T { { return A; [BETWEEN;] return B } }
\* T is the type of the typed literal B; BETWEEN = ENull: no statement between
TwoReturnProgram(A, BETWEEN, B) ==
    Program(<< Function("main", <<>>, Ty(B.kind), 5) >>,
            << SReturn(1),
               SExpression(2),
               SReturn(3),
               SExpression(4),
               SExpression(5) >>,
            << A,
               BETWEEN,
               B,
               EBlock(IF BETWEEN = ENull THEN <<1, 3>> ELSE <<1, 2, 3>>),
               EBlock(<<4>>) >>)

\* fn main() -> u64 { val a: T = A; g() }
\* fn g() -> u64 { val arr = [1u64, 2u64]; arr[IDX] }
\* in either order; T is the type of the typed literal A; IDX is node 8
ArrayAccessProgram(main_first, A, IDX) ==
    LET main == Function("main", <<>>, UInt64T, 3)
        g == Function("g", <<>>, UInt64T, 6)
    IN  Program(IF main_first THEN << main, g >> ELSE << g, main >>,
                << SVal("a", Ty(A.kind), 1),
                   SExpression(3),
                   SExpression(4),
                   SVal("arr", NoneT, 7),
                   SExpression(10),
                   SExpression(11) >>,
                << A,
                   EExprList(<<>>),
                   ECall("g", 2),
                   EBlock(<<1, 2>>),
                   EUInt64(1),
                   EUInt64(2),
                   EArrayLiteral(<<5, 6>>),
                   IDX,
                   EIdentifier("arr"),
                   EArrayAccess(9, 8),
                   EBlock(<<4, 5>>) >>)
IndexChoices == {Lit(0), EUInt64(0), EInt64(0), ETrue}
ArrayAccessPrograms ==
    {ArrayAccessProgram(m, A, I) :
        m \in BOOLEAN, A \in {EInt64(1), EUInt64(1)}, I \in IndexChoices}

\* fn main() -> T { KW x: T = L; x }   (KW: "Val" or "Var")
DeclProgram(KW, T, L) ==
    Program(<< Function("main", <<>>, T, 3) >>,
            << IF KW = "Val" THEN SVal("x", T, 1) ELSE SVar("x", T, 1),
               SExpression(2),
               SExpression(3) >>,
            << L,
               EIdentifier("x"),
               EBlock(<<1, 2>>) >>)
DeclTypes == {Int64T, UInt64T}
DeclInitializers == {Lit(5), EInt64(5), EUInt64(5), ETrue}
DeclPrograms ==
    {DeclProgram(K, T, L) :
        K \in {"Val", "Var"}, T \in DeclTypes, L \in DeclInitializers}

\* fn f() -> u64 { 1u64 }   fn main() -> i64 { val y = 5; [f();] y + 7i64 }
\* CALLS: main comes first and calls f; otherwise f comes first and is not
\* called.  Node 3 is main's literal 5.
OwnBodyProgram(CALLS) ==
    LET f == Function("f", <<>>, UInt64T, 2)
        main == Function("main", <<>>, Int64T, 6)
    IN  Program(IF CALLS THEN << main, f >> ELSE << f, main >>,
                << SExpression(1),
                   SExpression(2),
                   SVal("y", NoneT, 3),
                   SExpression(8),
                   SExpression(6),
                   SExpression(9) >>,
                << EUInt64(1),
                   EBlock(<<1>>),
                   Lit(5),
                   EIdentifier("y"),
                   EInt64(7),
                   EBinary("IAdd", 4, 5),
                   EExprList(<<>>),
                   ECall("f", 7),
                   EBlock(IF CALLS THEN <<3, 4, 5>> ELSE <<3, 5>>) >>)
OwnBodyPrograms == {OwnBodyProgram(c) : c \in BOOLEAN}

\* fn f() -> u64 { 1u64 } and fn main() -> i64 { val y = 5; y + 7i64 }, main
\* first or f first; neither calls the other
OrderProgram(main_first) ==
    [OwnBodyProgram(FALSE) EXCEPT
        !.function = IF main_first THEN << @[2], @[1] >> ELSE @]
OrderPrograms == {OrderProgram(m) : m \in BOOLEAN}

ArgChoices ==
    {<< EUInt64(3) >>, << ETrue >>, <<>>, << EUInt64(3), EUInt64(4) >>, << Lit(3) >>,
     << EInt64(3) >>}
BodyOperandChoices == {EIdentifier("p"), ETrue, Lit(2)}
CondChoices == {ETrue, EFalse, EUInt64(1)}
ShadowChoices == {EUInt64(10), EUInt64(20), EInt64(10)}

CallPrograms ==
    {CallProgram(m, A, O) : m \in BOOLEAN, A \in ArgChoices, O \in BodyOperandChoices}
IfPrograms == {IfProgram(C, R) : C \in CondChoices, R \in ReturnChoices}
ReturnPrograms ==
    {ReturnProgram(R, E) : R \in {UInt64T, Int64T, UnitT, NoneT},
                           E \in {EIdentifier("a"), EUInt64(1), Lit(1), ETrue}}
ShadowPrograms ==
    {ShadowVarProgram(O, I) : O \in ShadowChoices, I \in ShadowChoices}
    \cup {ShadowValProgram(O, I) : O \in ShadowChoices, I \in ShadowChoices}
RecursionPrograms ==
    {S6Program} \cup {RecProgram(L) : L \in {Lit(1), EUInt64(1)}}
    \cup {MutualProgram(L) : L \in {Lit(1), EUInt64(1)}}
ForPrograms == {ForProgram(O) : O \in {EIdentifier("i"), ETrue, Lit(2)}}
AssignPrograms ==
    {AssignProgram(D, N, V) :
        D \in {"Var", "Val"}, N \in BOOLEAN, V \in {EUInt64(2), EInt64(2), ETrue}}
IdentifierPrograms ==
    {IdentifierProgram(D, P) : D \in BOOLEAN, P \in {3, 5, 9}}
BackPropPrograms ==
    {BackPropProgram(O, L) :
        O \in {EInt64(7), EUInt64(7)},
        L \in {ENull, EInt64(1), EUInt64(1), ETrue, Lit(1)}}
ReturnOperands == {EInt64(1), EUInt64(1)}
BetweenChoices == {ENull, EInt64(5), EUInt64(5), ETrue}
TwoReturnPrograms ==
    {TwoReturnProgram(A, M, B) :
        A \in ReturnOperands, M \in BetweenChoices, B \in ReturnOperands}
SumForPrograms == {SumForProgram(S, E) : S \in 0..2, E \in 2..4}
Scenarios == {S1Program, S2Program, S4Program, S5Program}
ArithPrograms ==
    {ArithProgram(Int64T, OP, A, B) :
        OP \in ArithOps, A \in Int64Operands, B \in Int64Operands}
    \cup {ArithProgram(UInt64T, OP, A, B) :
        OP \in ArithOps, A \in UInt64Operands, B \in UInt64Operands}
NestedReturnPrograms ==
    {NestedReturnProgram(F, R, E) : F \in 1..3, R \in {UInt64T, NoneT}, E \in {0, 1}}

Programs ==
    ValBinPrograms \cup CallPrograms \cup IfPrograms \cup ReturnPrograms
    \cup ShadowPrograms \cup RecursionPrograms \cup ForPrograms \cup Scenarios
    \cup NestedReturnPrograms \cup ArithPrograms \cup SumForPrograms
    \cup AssignPrograms \cup IdentifierPrograms \cup BackPropPrograms
    \cup TwoReturnPrograms \cup ArrayAccessPrograms \cup DeclPrograms
    \cup OwnBodyPrograms \cup OrderPrograms

(***************************************************************************)
(* check_typing (interpreter/src/lib.rs) as a state machine: one step per  *)
(* function of the program, then the return.                               *)
(***************************************************************************)
VARIABLES program, tc, errors, results, next_fn, pc, eval, outcome, call, ret

vars == <<program, tc, errors, results, next_fn, pc, eval, outcome, call, ret>>

BuildProfiles == {"debug", "release"}
NotRun == [status |-> "none", value |-> ObjUnit]

\* a direct call of one function of the library and what it returned; the
\* run of the interpreter binary makes no such call
Call(fn) ==
    [fn |-> fn, hint |-> NoneT, op |-> "", lhs |-> ENull, rhs |-> ENull,
     lhs_ty |-> NoneT, rhs_ty |-> NoneT, sym |-> NoSym, ref |-> 0,
     items |-> <<>>, elements |-> <<>>]
NoCall == Call("none")
NoRet == [done |-> FALSE, ok |-> FALSE, ty |-> NoneT, l |-> NoneT, r |-> NoneT,
          err |-> NoError]
Returned(ok, ty, l, r, err) ==
    [done |-> TRUE, ok |-> ok, ty |-> ty, l |-> l, r |-> r, err |-> err]

RECURSIVE register_functions(_, _, _)
register_functions(s, functions, i) ==
    IF i > Len(functions) THEN s
    ELSE register_functions(add_function(s, functions[i]), functions, i + 1)

Init ==
    /\ program \in Programs
    /\ tc = register_functions(
              TypeCheckerVisitor_new(program.statement, program.expression),
              program.function, 1)
    /\ errors = <<>>
    /\ results = <<>>
    /\ next_fn = 1
    /\ pc = "check_typing"
    /\ \E build \in BuildProfiles : eval = EvaluationContext_new(build)
    /\ outcome = NotRun
    /\ call = NoCall
    /\ ret = NoRet

\* `let r = tc.type_check(func.clone())` and `if r.is_err() { errors.push(..) }`
record_result(func, r) ==
    /\ tc' = r.st
    /\ errors' = IF r.ok THEN errors
                 ELSE Append(errors, [name |-> func.name, error |-> r.err])
    /\ results' = Append(results, [name |-> func.name, ok |-> r.ok,
                                   ty |-> r.ty, err |-> r.err])

\* the body of program.function.iter().for_each(...) for one function
CheckFunction ==
    /\ pc = "check_typing"
    /\ next_fn <= Len(program.function)
    /\ record_result(program.function[next_fn],
                     type_check(tc, program.function[next_fn]))
    /\ next_fn' = next_fn + 1
    /\ UNCHANGED <<program, pc, eval, outcome, call, ret>>

CheckTypingReturn ==
    /\ pc = "check_typing"
    /\ next_fn > Len(program.function)
    /\ pc' = IF Len(errors) = 0 THEN "checked_ok" ELSE "checked_err"
    /\ UNCHANGED <<program, tc, errors, results, next_fn, eval, outcome, call, ret>>

\* main: the last function named main without parameters (0: none)
find_main(functions) ==
    LET mains == {i \in 1..Len(functions) :
                     functions[i].name = "main" /\ functions[i].parameter = <<>>}
    IN  IF mains = {} THEN 0 ELSE CHOOSE i \in mains : \A j \in mains : j <= i

\* `let res = eval.evaluate_main(main)`: the evaluator after the run and
\* the object it returned
record_outcome(r) ==
    /\ eval' = r.st
    /\ outcome' = [status |-> r.status,
                   value |-> IF r.status = "ok" THEN r.st.heap[r.val] ELSE ObjUnit]

\* if !kill_switch && main.is_some() { eval.evaluate_main(main) }
EvaluateMain ==
    /\ pc = "checked_ok"
    /\ find_main(program.function) # 0
    /\ record_outcome(evaluate_main(eval, program.statement, tc.expr_pool,
                                    program.function[find_main(program.function)]))
    /\ pc' = "done"
    /\ UNCHANGED <<program, tc, errors, results, next_fn, call, ret>>

\* else { println!("Program didn't run") }
ProgramDidntRun ==
    /\ pc \in {"checked_ok", "checked_err"}
    /\ pc = "checked_err" \/ find_main(program.function) = 0
    /\ pc' = "not_run"
    /\ UNCHANGED <<program, tc, errors, results, next_fn, eval, outcome, call, ret>>

Next == CheckFunction \/ CheckTypingReturn \/ EvaluateMain \/ ProgramDidntRun

Spec == Init /\ [][Next]_vars

(***************************************************************************)
(* Direct calls of the library's functions (TypeCheckerVisitor's methods   *)
(* and EvaluationContext::evaluate) with arguments drawn from bounded      *)
(* sets: one call per behaviour.                                           *)
(***************************************************************************)
AssertionCalls ==
    {[Call(f) EXCEPT !.ref = r] :
        f \in {"type_check", "visit_stmt"}, r \in 1..(Len(AssertionProgram.statement) + 1)}
    \cup {[Call("evaluate") EXCEPT !.ref = r] :
             r \in 1..(Len(AssertionProgram.expression) + 1)}

HintChoices == {NoneT, Int64T, UInt64T, BoolT}
BinaryOperands ==
    {EUInt64(1), EInt64(1), ETrue, EString("s"), Lit(1), NegLit(1), Lit(I64_MAX + 1)}

BinaryCalls ==
    {[Call("visit_binary") EXCEPT !.hint = h, !.op = o, !.lhs = l, !.rhs = r] :
        h \in HintChoices, o \in ArithOps \cup CompareOps \cup LogicalOps,
        l \in BinaryOperands, r \in BinaryOperands}

\* digit strings around the limits of i64 and u64, with and without a
\* minus sign, and the empty string
LiteralChoices ==
    {Sym(n, ToDigits(m)) :
        n \in BOOLEAN,
        m \in {0, 5, I64_MAX, I64_MAX + 1, I64_MAX + 2, U64_MAX, U64_MAX + 1}}
    \cup {NoSym}

NumberLiteralCalls ==
    {[Call("visit_number_literal") EXCEPT !.hint = h, !.sym = y] :
        h \in HintChoices, y \in LiteralChoices}

TypeChoices ==
    {UnitT, BoolT, Int64T, UInt64T, StringT, NumberT, UnknownT, AnyT,
     ArrayT(<<UInt64T>>, 1), ArrayT(<<Int64T>>, 1)}

ResolveCalls ==
    {[Call("resolve_numeric_types") EXCEPT !.hint = h, !.lhs_ty = l, !.rhs_ty = r] :
        h \in HintChoices, l \in TypeChoices, r \in TypeChoices}

\* branches of an if/elif/else: 2 is `{}`, 3 is `{ 1u64 }`, 4 is `{ 1i64 }`,
\* 7 is `{ true }`, 8 is `{ 1 }`; 1 is the condition
BranchProgram ==
    Program(<<>>,
            << SExpression(5), SExpression(6), SExpression(1), SExpression(9) >>,
            << ETrue,
               EBlock(<<>>),
               EBlock(<<1>>),
               EBlock(<<2>>),
               EUInt64(1),
               EInt64(1),
               EBlock(<<3>>),
               EBlock(<<4>>),
               Lit(1) >>)
EmptyBranch ==
    CHOOSE b \in DOMAIN BranchProgram.expression :
        BranchProgram.expression[b] = EBlock(<<>>)
BranchRefs == {EmptyBranch, 3, 4, 7, 8}

\* then and else, with or without one elif between them
IfCalls ==
    {[Call("visit_if_elif_else") EXCEPT !.hint = h, !.items = <<t, e>>] :
        h \in HintChoices, t \in BranchRefs, e \in BranchRefs}
    \cup {[Call("visit_if_elif_else") EXCEPT !.hint = h, !.items = <<t, m, e>>] :
             h \in HintChoices, t \in BranchRefs, m \in BranchRefs, e \in BranchRefs}

\* array literals of up to MaxElements elements, with and without an Array hint
MaxElements == 3
ElementChoices == {EInt64(1), EUInt64(2), ETrue, Lit(3)}
ElementLists ==
    UNION {[1..n -> ElementChoices] : n \in 0..MaxElements}
ArrayHintChoices ==
    HintChoices \cup {ArrayT(<<Int64T>>, 2), ArrayT(<<UInt64T>>, 2)}
ArrayLiteralCalls ==
    {[Call("visit_array_literal") EXCEPT !.hint = h, !.elements = l] :
        h \in ArrayHintChoices, l \in ElementLists}

Calls ==
    AssertionCalls \cup BinaryCalls \cup NumberLiteralCalls \cup ResolveCalls
    \cup IfCalls \cup ArrayLiteralCalls

\* the pools a call works on
PoolOf(c) ==
    IF c.fn = "visit_binary" THEN Program(<<>>, <<>>, << c.lhs, c.rhs >>)
    ELSE IF c.fn \in {"type_check", "visit_stmt", "evaluate"} THEN AssertionProgram
    ELSE IF c.fn = "visit_if_elif_else" THEN BranchProgram
    ELSE IF c.fn = "visit_array_literal" THEN Program(<<>>, <<>>, c.elements)
    ELSE Program(<<>>, <<>>, <<>>)

\* the visitor a call is made on: a new visitor over the pools, the
\* functions registered, type_hint as the call finds it
CallVisitor(c) ==
    [register_functions(
         TypeCheckerVisitor_new(PoolOf(c).statement, PoolOf(c).expression),
         PoolOf(c).function, 1) EXCEPT !.type_hint = c.hint]

InitCalls ==
    /\ call \in Calls
    /\ program = PoolOf(call)
    /\ tc = CallVisitor(call)
    /\ errors = <<>>
    /\ results = <<>>
    /\ next_fn = 1
    /\ pc = "call"
    /\ \E build \in BuildProfiles : eval = EvaluationContext_new(build)
    /\ outcome = NotRun
    /\ ret = NoRet

\* the visitor after the call and the Result it returned
return_visit(r) ==
    /\ tc' = r.st
    /\ ret' = Returned(r.ok, r.ty, NoneT, NoneT, r.err)

CallTypeCheck ==
    /\ pc = "call"
    /\ call.fn = "type_check"
    /\ return_visit(type_check(tc, Function("f", <<>>, UInt64T, call.ref)))
    /\ pc' = "returned"
    /\ UNCHANGED <<program, errors, results, next_fn, eval, outcome, call>>

CallVisitStmt ==
    /\ pc = "call"
    /\ call.fn = "visit_stmt"
    /\ return_visit(visit_stmt(tc, call.ref))
    /\ pc' = "returned"
    /\ UNCHANGED <<program, errors, results, next_fn, eval, outcome, call>>

CallVisitBinary ==
    /\ pc = "call"
    /\ call.fn = "visit_binary"
    /\ return_visit(visit_binary(tc, call.op, 1, 2))
    /\ pc' = "returned"
    /\ UNCHANGED <<program, errors, results, next_fn, eval, outcome, call>>

CallVisitNumberLiteral ==
    /\ pc = "call"
    /\ call.fn = "visit_number_literal"
    /\ return_visit(visit_number_literal(tc, call.sym))
    /\ pc' = "returned"
    /\ UNCHANGED <<program, errors, results, next_fn, eval, outcome, call>>

CallVisitIfElifElse ==
    /\ pc = "call"
    /\ call.fn = "visit_if_elif_else"
    /\ return_visit(visit_if_elif_else(tc, 1, Head(call.items),
                                       SubSeq(call.items, 2, Len(call.items) - 1),
                                       call.items[Len(call.items)]))
    /\ pc' = "returned"
    /\ UNCHANGED <<program, errors, results, next_fn, eval, outcome, call>>

\* the elements are the whole pool, in order
CallVisitArrayLiteral ==
    /\ pc = "call"
    /\ call.fn = "visit_array_literal"
    /\ return_visit(visit_array_literal(tc, [i \in 1..Len(call.elements) |-> i]))
    /\ pc' = "returned"
    /\ UNCHANGED <<program, errors, results, next_fn, eval, outcome, call>>

\* resolve_numeric_types takes &self: the visitor is left as it was
return_resolved(r) == ret' = Returned(r.ok, NoneT, r.l, r.r, r.err)

CallResolveNumericTypes ==
    /\ pc = "call"
    /\ call.fn = "resolve_numeric_types"
    /\ return_resolved(resolve_numeric_types(tc, call.lhs_ty, call.rhs_ty))
    /\ pc' = "returned"
    /\ UNCHANGED <<program, tc, errors, results, next_fn, eval, outcome, call>>

CallEvaluate ==
    /\ pc = "call"
    /\ call.fn = "evaluate"
    /\ record_outcome(evaluate(eval, program.statement, program.expression, call.ref))
    /\ ret' = [NoRet EXCEPT !.done = TRUE]
    /\ pc' = "returned"
    /\ UNCHANGED <<program, tc, errors, results, next_fn, call>>

NextCalls ==
    \/ CallTypeCheck
    \/ CallVisitStmt
    \/ CallVisitBinary
    \/ CallVisitNumberLiteral
    \/ CallResolveNumericTypes
    \/ CallEvaluate
    \/ CallVisitIfElifElse
    \/ CallVisitArrayLiteral

SpecCalls == InitCalls /\ [][NextCalls]_vars

(***************************************************************************)
(* Properties.                                                             *)
(***************************************************************************)
ExprRefsOfStmt(stmt) == {stmt.expr, stmt.cond, stmt.range, stmt.body} \ {0}

\* the expressions directly under expression e (through the statements of
\* a block)
ChildExprs(stmt_pool, expr_pool, e) ==
    LET n == expr_pool[e]
        under == IF n.kind = "Block"
                 THEN UNION {ExprRefsOfStmt(stmt_pool[n.items[i]]) : i \in DOMAIN n.items}
                 ELSE {n.items[i] : i \in DOMAIN n.items}
    IN  (({n.lhs, n.rhs, n.third} \ {0}) \cup under) \cap (1..Len(expr_pool))

RECURSIVE ReachableFrom(_, _, _)
ReachableFrom(stmt_pool, expr_pool, refs) ==
    LET more == refs \cup UNION {ChildExprs(stmt_pool, expr_pool, e) : e \in refs} IN
    IF more = refs THEN refs ELSE ReachableFrom(stmt_pool, expr_pool, more)

\* the expressions reachable from the body of function f
BodyExprs(f) ==
    ReachableFrom(program.statement, program.expression,
                  ExprRefsOfStmt(program.statement[f.code]))

FunctionNamed(name) ==
    program.function[CHOOSE i \in 1..Len(program.function) :
                         program.function[i].name = name]

\* C1: Number elimination.  Once type_check(F) has returned Ok, no expression
\* reachable from F's body is an Expr::Number.
C1_NumberElimination ==
    \A j \in 1..Len(results) :
        results[j].ok =>
            \A e \in BodyExprs(FunctionNamed(results[j].name)) :
                tc.expr_pool[e].kind # "Number"

\* C2: Ref stability.  Every rewrite of a Number node replaces the node at its
\* own pool index by an Int64 or UInt64 node: the pool keeps its length, no
\* other index changes, and a node that is not a Number literal is never
\* replaced.
C2_RefStability ==
    /\ \A w \in tc.rewrites :
          /\ w.len_out = w.len_in
          /\ w.changed \subseteq {w.expr_ref}
          /\ w.kind_out \in {"Int64", "UInt64"}
    /\ Len(tc.expr_pool) = Len(program.expression)
    /\ \A i \in 1..Len(program.expression) :
          program.expression[i].kind # "Number" => tc.expr_pool[i] = program.expression[i]

\* a Number node has been rewritten while other Number nodes of the pool
\* were still waiting
C2_Witness ==
    \E w \in tc.rewrites :
        /\ w.changed = {w.expr_ref}
        /\ tc.expr_pool[w.expr_ref].kind \in {"Int64", "UInt64"}
        /\ program.expression[w.expr_ref].kind = "Number"
        /\ Cardinality({i \in 1..Len(program.expression) :
                           program.expression[i].kind = "Number"}) > 1

S7Program == ValBinProgram(Int64T, Int64T, Lit(5), Lit(7))

\* C3: Inference from an annotation (S7).  For `val a: i64 = 5; a + 7`
\* type_check succeeds and both literals are Int64 nodes when it returns.
C3_AnnotationInference ==
    (program = S7Program /\ Len(results) = 1) =>
        /\ results[1].ok
        /\ tc.expr_pool[1] = EInt64(5)
        /\ tc.expr_pool[3] = EInt64(7)

\* the type of the operand of `return` in ReturnProgram when it is manifest
ReturnedType(E) ==
    CASE E = EIdentifier("a") -> UInt64T
      [] E = EUInt64(1) -> UInt64T
      [] E = ETrue -> BoolT

\* C4: Function return validation.  With declared return type T, type_check
\* returns Ok exactly when the body's type is T, the type of a body ending in
\* `return e` being the type of e (S4 is accepted); otherwise it returns
\* TypeMismatch(expected T, actual body type).
C4_ReturnValidation ==
    /\ (program = S4Program /\ Len(results) = 1) => results[1].ok
    /\ \A R \in {UInt64T, Int64T, UnitT} : \A E \in {EIdentifier("a"), EUInt64(1), ETrue} :
          (program = ReturnProgram(R, E) /\ Len(results) = 1) =>
              IF R = ReturnedType(E) THEN results[1].ok
              ELSE /\ ~results[1].ok
                   /\ results[1].err = type_mismatch(R, ReturnedType(E))

\* the type a node has by its form alone (NoneT: it has none)
ManifestType(node) ==
    CASE node.kind = "UInt64" -> UInt64T
      [] node.kind = "Int64" -> Int64T
      [] node.kind \in {"True", "False"} -> BoolT
      [] node.kind = "String" -> StringT
      [] OTHER -> NoneT

\* call node e passes a wrong number of arguments or an argument of a wrong
\* manifest type (before any rewrite)
MismatchedCall(e) ==
    LET node == program.expression[e]
        args == program.expression[node.lhs].items
        callee == FunctionNamed(node.name)
    IN  \/ Len(args) # Len(callee.parameter)
        \/ \E i \in 1..Len(args) :
              /\ ManifestType(program.expression[args[i]]) # NoneT
              /\ ManifestType(program.expression[args[i]]) # callee.parameter[i].ty

\* C5: Call argument validation.  type_check of a function whose body holds a
\* call with a wrong argument count or a wrong argument type returns an error.
C5_CallArgumentValidation ==
    \A j \in 1..Len(results) :
        (\E e \in BodyExprs(FunctionNamed(results[j].name)) :
            /\ program.expression[e].kind = "Call"
            /\ MismatchedCall(e))
        => ~results[j].ok

\* a checker that has registered the program's functions and holds every
\* function other than f as already checked with its declared return type:
\* checking f with it checks the body of f alone
BodyChecker(f) ==
    LET fresh == register_functions(
                     TypeCheckerVisitor_new(program.statement, program.expression),
                     program.function, 1)
        others == {program.function[i].name : i \in 1..Len(program.function)} \ {f.name}
    IN  [fresh EXCEPT !.is_checked_fn =
            [n \in others |-> IF FunctionNamed(n).return_type = NoneT THEN UnknownT
                              ELSE FunctionNamed(n).return_type]]

IllTypedBody(f) == ~type_check(BodyChecker(f), f).ok

IllTypedFunctions ==
    {program.function[i].name : i \in {j \in 1..Len(program.function) :
                                          IllTypedBody(program.function[j])}}

\* C6: check_typing returns Ok(()) iff no function failed; otherwise its error
\* list holds exactly one entry for each function whose body is ill-typed,
\* whether the body was first visited at top level or through a call.
C6_OneErrorPerIllTypedFunction ==
    pc \in {"checked_ok", "checked_err"} =>
        /\ (pc = "checked_ok") = (\A j \in 1..Len(results) : results[j].ok)
        /\ {errors[i].name : i \in 1..Len(errors)} = IllTypedFunctions
        /\ Len(errors) = Cardinality(IllTypedFunctions)

\* C7: Scope frames are released on every exit path: when type_check,
\* visit_call or visit_for returns, with Ok or with an error, context.vars has
\* the depth it had on entry and call_depth has the value it had on entry.
C7_FramesReleased ==
    \A o \in tc.obs :
        o.op \in {"type_check", "visit_call", "visit_for"} =>
            /\ o.vars_out = o.vars_in
            /\ o.depth_out = o.depth_in

\* C8: The type hint is restored around every visit: when visit_expr,
\* visit_block, visit_val, visit_array_literal, visit_array_access or
\* type_check returns, type_hint has the value it had when the visit began.
C8_HintRestored ==
    \A o \in tc.obs :
        o.op \in {"visit_expr", "visit_block", "visit_val", "visit_array_literal",
                  "visit_array_access", "type_check"} =>
            o.hint_out = o.hint_in

\* C9: Recursion guard.  A function is in the None (in progress) state only
\* while a type_check of it is active: once the outermost type_check call has
\* returned, no function is left in the None state.
C9_NoFunctionLeftInProgress ==
    \A name \in DOMAIN tc.is_checked_fn : tc.is_checked_fn[name] # NoneT

\* C10: Shadowing.  A variable declared in an inner block with the name of an
\* outer variable leaves the outer binding untouched: after the block the outer
\* variable holds the value it had before (S5 yields the outer value plus one).
C10_ShadowingKeepsOuter ==
    pc = "done" =>
        /\ \A O \in {EUInt64(10), EUInt64(20)} : \A I \in {EUInt64(10), EUInt64(20)} :
              program \in {ShadowVarProgram(O, I), ShadowValProgram(O, I)} =>
                  /\ outcome.status = "ok"
                  /\ outcome.value = ObjUInt64(O.val)
        /\ program = S5Program =>
              /\ outcome.status = "ok"
              /\ outcome.value = ObjUInt64(21)

\* what NestedReturnProgram(F, R, E) returns when its `return` ends main
ReturnedObject(R, E) ==
    IF R = NoneT \/ E = 0 THEN ObjUnit ELSE ObjUInt64(1)

\* C11: Evaluating `return e` anywhere in a function body, also inside a
\* nested block or an if/else branch, ends the function with the value of e
\* (Unit when e is absent); no statement that follows it in any enclosing
\* block is evaluated (the `val b` after it is never bound).
C11_ReturnEndsFunction ==
    pc = "done" =>
        \A F \in 1..3 : \A R \in {UInt64T, NoneT} : \A E \in {0, 1} :
            program = NestedReturnProgram(F, R, E) =>
                /\ outcome.status = "ok"
                /\ outcome.value = ReturnedObject(R, E)
                /\ "b" \notin DOMAIN eval.environment.var

\* the exact (unbounded) result of a OP b, the division truncating
ExactResult(op, a, b) ==
    CASE op = "IAdd" -> a + b
      [] op = "ISub" -> a - b
      [] op = "IMul" -> a * b
      [] op = "IDiv" -> TruncDiv(a, b)

\* the host wrapping result (wrapping_add, wrapping_sub, wrapping_mul,
\* wrapping_div) for the operand type T
WrappingResult(T, op, a, b) ==
    IF T = Int64T THEN ObjInt64(WrapI64(ExactResult(op, a, b)))
    ELSE ObjUInt64(WrapU64(ExactResult(op, a, b)))

\* C12: Typed arithmetic wraps.  For Int64 (UInt64) operands + - * / return
\* the i64 (u64) wrapping result; an overflowing operation yields the wrapped
\* value and never aborts evaluation (division by zero apart).
C12_ArithmeticWraps ==
    (pc = "done" /\ program \in ArithPrograms) =>
        LET T == program.function[1].return_type
            op == program.expression[4].op
            a == program.expression[1].val
            b == program.expression[3].val
        IN  ~(op = "IDiv" /\ b = 0) =>
                /\ outcome.status = "ok"
                /\ outcome.value = WrappingResult(T, op, a, b)

\* C13: Division by zero is a runtime error: `a / b` with b = 0 (Int64 or
\* UInt64) makes evaluation return an Err value rather than crash, and the
\* binding of a keeps its value.
C13_DivisionByZeroIsErr ==
    (pc = "done" /\ program \in ArithPrograms) =>
        ((program.expression[4].op = "IDiv" /\ program.expression[3].val = 0) =>
            /\ outcome.status = "err"
            /\ "a" \in DOMAIN eval.environment.var
            /\ eval.heap[eval.environment.var["a"].cell] = convert_object(program.expression[1]))

\* s + (s+1) + ... + (e-1)
RECURSIVE SumRange(_, _)
SumRange(s, e) == IF s >= e THEN 0 ELSE s + SumRange(s + 1, e)

\* C14: For(i, start, end, body) runs body once for each i of [start, end) in
\* ascending order, Break ends the loop and Continue skips to the next
\* iteration: `for i in s to e { sum = sum + i }` adds s + ... + (e-1) to sum,
\* a loop whose body value is unused leaves the value after it, and S4 runs
\* and yields UInt64(3).
C14_ForLoop ==
    /\ (pc \in {"done", "not_run"} /\ program \in SumForPrograms) =>
          /\ pc = "done"
          /\ outcome.status = "ok"
          /\ outcome.value = ObjUInt64(SumRange(program.expression[2].val,
                                                program.expression[3].val))
    /\ (pc \in {"done", "not_run"} /\ program = ForProgram(EIdentifier("i"))) =>
          /\ pc = "done"
          /\ outcome.status = "ok"
          /\ outcome.value = ObjUInt64(1)
    /\ (pc \in {"done", "not_run"} /\ program = S4Program) =>
          /\ pc = "done"
          /\ outcome.status = "ok"
          /\ outcome.value = ObjUInt64(3)

\* the object bound to name in the evaluator's current frame
BoundObject(name) == eval.heap[eval.environment.var[name].cell]

\* C15: Reassignment of a name bound as a mutable var in a visible frame (the
\* current one or an enclosing one) overwrites the existing cell in place when
\* the new value has the cell's type; it is an error that leaves the cell's
\* value unchanged when the types differ or the name is bound as a val.
C15_Reassignment ==
    \A D \in {"Var", "Val"} : \A N \in BOOLEAN : \A V \in {EUInt64(2), EInt64(2), ETrue} :
        (program = AssignProgram(D, N, V) /\ pc \in {"done", "not_run"}) =>
            IF D = "Var" /\ V = EUInt64(2)
            THEN /\ pc = "done"
                 /\ outcome.status = "ok"
                 /\ outcome.value = ObjUInt64(2)
                 /\ BoundObject("x") = ObjUInt64(2)
            ELSE pc = "done" =>
                    /\ outcome.status # "ok"
                    /\ BoundObject("x") = ObjUInt64(1)

\* C16: Evaluating Identifier(x) when x is unbound in every frame, or bound
\* to Null, yields a runtime error as an Err result in every expression
\* position: as an expression statement, as an operand of a binary expression
\* and as an if condition.
C16_UnboundIdentifierIsErr ==
    (pc = "done" /\ program \in IdentifierPrograms) => outcome.status = "err"

\* the statements of AssertionProgram that are no function body: an
\* expression statement that is no block (2, 6), no expression statement (3),
\* an expression outside the pool (4), a block holding a statement outside
\* the pool (5), a statement outside the pool (7)
MalformedBodies == 2..7
\* the statements that are or hold a reference outside its pool
MalformedStatements == {4, 5, 7}
\* the expressions the evaluator has no arm for (2, 3) or that are or hold a
\* reference outside its pool (5, 6, 7)
MalformedExpressions == {2, 3, 5, 6, 7}

\* C17: Internal assertion conditions (an ExprRef or StmtRef outside its pool,
\* an unhandled expression or statement variant) surface from the type checker
\* and from the evaluator as a returned generic error: they never crash the
\* process and are never accepted as if they were a valid statement.
C17_AssertionsAreGenericErrors ==
    pc = "returned" =>
        /\ (call.fn = "type_check" /\ call.ref \in MalformedBodies) =>
              (~ret.ok /\ ret.err.kind = "GenericError")
        /\ (call.fn = "visit_stmt" /\ call.ref \in MalformedStatements) =>
              (~ret.ok /\ ret.err.kind = "GenericError")
        /\ (call.fn = "evaluate" /\ call.ref \in MalformedExpressions) =>
              outcome.status = "err"

\* the type the two operands of a binary expression resolve to (NoneT: the
\* pair is rejected), stated without the visitor: Number takes the
\* other operand's integer type, two Numbers take the hint when it is Int64 or
\* UInt64 and UInt64 otherwise, Int64 with UInt64 is rejected, any other pair
\* must be of one type
ResolvedOperandType(l, r, hint) ==
    IF l = NumberT /\ r = NumberT
    THEN IF hint \in {Int64T, UInt64T} THEN hint ELSE UInt64T
    ELSE IF l = NumberT /\ r \in {Int64T, UInt64T} THEN r
    ELSE IF r = NumberT /\ l \in {Int64T, UInt64T} THEN l
    ELSE IF l = r THEN l
    ELSE NoneT

\* the type of `l op r` for operands resolved to t (NoneT: an error)
BinaryTypeOf(op, t) ==
    IF op = "IAdd" /\ t = StringT THEN StringT
    ELSE IF op \in ArithOps /\ t \in {Int64T, UInt64T} THEN t
    ELSE IF op \in CompareOps /\ t \in {Int64T, UInt64T, BoolT} THEN BoolT
    ELSE IF op \in LogicalOps /\ t = BoolT THEN BoolT
    ELSE NoneT

\* the types of the two operands of the call, as their own visits give them
LhsOperand == accept_expr(CallVisitor(call), call.lhs)
RhsOperand == accept_expr(CallVisitor(call), call.rhs)

\* C18: Binary operator typing.  visit_binary returns String for + on two
\* Strings; UInt64 (Int64) for + - * / when both operands resolve to UInt64
\* (Int64); Bool for a comparison of two integers of one type or of two Bools;
\* Bool for && and || on two Bools; every other operand pair is an error, and
\* an Int64 operand with a UInt64 operand is always rejected.
C18_BinaryOperatorTyping ==
    (pc = "returned" /\ call.fn = "visit_binary" /\ LhsOperand.ok /\ RhsOperand.ok) =>
        /\ IF BinaryTypeOf(call.op,
                ResolvedOperandType(LhsOperand.ty, RhsOperand.ty, call.hint)) = NoneT
           THEN ~ret.ok
           ELSE /\ ret.ok
                /\ ret.ty = BinaryTypeOf(call.op,
                       ResolvedOperandType(LhsOperand.ty, RhsOperand.ty, call.hint))
        /\ {LhsOperand.ty, RhsOperand.ty} = {Int64T, UInt64T} => ~ret.ok

\* `1 + 1i64` was typed: the Number operand took the type of the other one
C18_Witness ==
    /\ pc = "returned"
    /\ call.fn = "visit_binary"
    /\ call.op = "IAdd" /\ call.lhs = Lit(1) /\ call.rhs = EInt64(1)
    /\ call.hint = NoneT
    /\ ret.ok /\ ret.ty = Int64T

\* the integer a digit string denotes, and whether str::parse::<i64> and
\* str::parse::<u64> take it (parse::<u64> takes no minus sign)
LiteralValue(sym) ==
    IF sym.neg THEN 0 - Magnitude(sym.digits) ELSE Magnitude(sym.digits)
ParsesAsI64(sym) ==
    sym.digits # <<>> /\ LiteralValue(sym) \in I64_MIN..I64_MAX
ParsesAsU64(sym) ==
    sym.digits # <<>> /\ ~sym.neg /\ LiteralValue(sym) \in 0..U64_MAX

\* C19: visit_number_literal.  With type_hint Int64 (UInt64) an unsuffixed
\* literal is typed Int64 (UInt64) if its digit string parses as i64 (u64) and
\* fails with ConversionError otherwise; with any other hint or none it is
\* typed Number if it parses as a non-negative i64, Int64 if it parses as a
\* negative i64, UInt64 if it exceeds i64::MAX but parses as u64, and fails
\* with InvalidLiteral otherwise.
C19_NumberLiteralTyping ==
    (pc = "returned" /\ call.fn = "visit_number_literal") =>
        IF call.hint = Int64T
        THEN IF ParsesAsI64(call.sym) THEN ret.ok /\ ret.ty = Int64T
             ELSE ~ret.ok /\ ret.err.kind = "ConversionError"
        ELSE IF call.hint = UInt64T
        THEN IF ParsesAsU64(call.sym) THEN ret.ok /\ ret.ty = UInt64T
             ELSE ~ret.ok /\ ret.err.kind = "ConversionError"
        ELSE IF ParsesAsI64(call.sym) /\ LiteralValue(call.sym) >= 0
        THEN ret.ok /\ ret.ty = NumberT
        ELSE IF ParsesAsI64(call.sym)
        THEN ret.ok /\ ret.ty = Int64T
        ELSE IF ParsesAsU64(call.sym)
        THEN ret.ok /\ ret.ty = UInt64T
        ELSE ~ret.ok /\ ret.err.kind = "InvalidLiteral"

\* a negative literal was typed without an integer hint
C19_Witness ==
    /\ pc = "returned"
    /\ call.fn = "visit_number_literal"
    /\ call.hint = NoneT
    /\ call.sym = Sym(TRUE, ToDigits(5))
    /\ ret.ok /\ ret.ty = Int64T

\* C20: resolve_numeric_types.  (Number, X) and (X, Number) resolve to (X, X)
\* for X in {Int64, UInt64}; (Number, Number) resolves to the hint when it is
\* Int64 or UInt64 and to (UInt64, UInt64) otherwise; (Int64, UInt64) and
\* (UInt64, Int64) fail with TypeMismatchOperation; any other pair is returned
\* unchanged when both types are equal and fails with TypeMismatch when they
\* differ.  A successful result is a pair of equal types without Number.
C20_ResolveNumericTypes ==
    (pc = "returned" /\ call.fn = "resolve_numeric_types") =>
        /\ IF call.lhs_ty = NumberT /\ call.rhs_ty \in {Int64T, UInt64T}
           THEN ret.ok /\ ret.l = call.rhs_ty /\ ret.r = call.rhs_ty
           ELSE IF call.rhs_ty = NumberT /\ call.lhs_ty \in {Int64T, UInt64T}
           THEN ret.ok /\ ret.l = call.lhs_ty /\ ret.r = call.lhs_ty
           ELSE IF call.lhs_ty = NumberT /\ call.rhs_ty = NumberT
           THEN IF call.hint \in {Int64T, UInt64T}
                THEN ret.ok /\ ret.l = call.hint /\ ret.r = call.hint
                ELSE ret.ok /\ ret.l = UInt64T /\ ret.r = UInt64T
           ELSE IF {call.lhs_ty, call.rhs_ty} = {Int64T, UInt64T}
           THEN ~ret.ok /\ ret.err.kind = "TypeMismatchOperation"
           ELSE IF call.lhs_ty = call.rhs_ty
           THEN ret.ok /\ ret.l = call.lhs_ty /\ ret.r = call.rhs_ty
           ELSE ~ret.ok /\ ret.err.kind = "TypeMismatch"
        /\ ret.ok => (ret.l = ret.r /\ ret.l # NumberT)

\* two Numbers were resolved under the hint Int64
C20_Witness ==
    /\ pc = "returned"
    /\ call.fn = "resolve_numeric_types"
    /\ call.lhs_ty = NumberT /\ call.rhs_ty = NumberT
    /\ call.hint = Int64T
    /\ ret.ok /\ ret.l = Int64T /\ ret.r = Int64T

\* C21: a variable x declared from an unsuffixed literal and later used as an
\* operand of a binary expression whose other operand is Int64 (resp. UInt64)
\* has that type in scope (the function's final `x` has it), and once
\* type_check has returned Ok the literal x was declared from is Expr::Int64
\* (resp. Expr::UInt64), whatever declaration follows the use.
C21_BackPropagation ==
    \A RHS \in {EInt64(7), EUInt64(7)} :
        \A LATER \in {ENull, EInt64(1), EUInt64(1), ETrue, Lit(1)} :
            (program = BackPropProgram(RHS, LATER) /\ Len(results) >= 1) =>
                /\ results[1].ok
                /\ results[1].ty = Ty(RHS.kind)
                /\ tc.expr_pool[1].kind = RHS.kind

\* C22: a block that contains two `return e` statements whose expressions
\* have different types is rejected with a TypeMismatch carrying the context
\* "return statement", whatever statement stands between the two returns.
C22_ReturnTypesAgree ==
    \A A \in ReturnOperands, M \in BetweenChoices, B \in ReturnOperands :
        (/\ program = TwoReturnProgram(A, M, B)
         /\ A.kind # B.kind
         /\ Len(results) >= 1) =>
            /\ ~results[1].ok
            /\ results[1].err.kind = "TypeMismatch"
            /\ results[1].err.context = "return statement"

\* the type a branch has when it is visited on its own by the same visitor
BranchType(b) == accept_expr(CallVisitor(call), PoolOf(call).expression[b]).ty
NonEmptyBranches == {call.items[i] : i \in 1..Len(call.items)} \ {EmptyBranch}
BranchTypes == {BranchType(b) : b \in NonEmptyBranches}

\* C23: visit_if_elif_else ignores branches that are empty blocks; it returns
\* Unit when every branch is empty or when two non-empty branches have
\* different types, and otherwise the common type of the non-empty branches;
\* a difference between branch types is never reported as an error.
C23_IfElifElse ==
    (pc = "returned" /\ call.fn = "visit_if_elif_else") =>
        /\ ret.ok
        /\ ret.ty = IF Cardinality(BranchTypes) = 1
                    THEN CHOOSE t \in BranchTypes : TRUE
                    ELSE UnitT

\* `{ 1i64 }`, `{}` and `{ 1 }` under the hint Int64 have the common type Int64
C23_Witness ==
    /\ pc = "returned"
    /\ call.fn = "visit_if_elif_else"
    /\ call.items = <<4, EmptyBranch, 8>>
    /\ call.hint = Int64T
    /\ ret.ok /\ ret.ty = Int64T

\* `{ 1u64 }` and `{ true }` differ: the result is Unit, not an error
C23_WitnessDifferent ==
    /\ pc = "returned"
    /\ call.fn = "visit_if_elif_else"
    /\ call.items = <<3, 7>>
    /\ ret.ok /\ ret.ty = UnitT

\* the kinds of the literal's element nodes
ElementKinds == {call.elements[i].kind : i \in 1..Len(call.elements)}

C25_ArrayAccess ==
    \A m \in BOOLEAN, A \in {EInt64(1), EUInt64(1)}, I \in IndexChoices :
        (program = ArrayAccessProgram(m, A, I) /\ Len(results) = 2) =>
            /\ I = ETrue =>
                  \E j \in 1..2 : ~results[j].ok /\ results[j].err.kind = "ArrayError"
            /\ I # ETrue =>
                  \A j \in 1..2 : results[j].ok /\ results[j].ty = UInt64T
            /\ I = Lit(0) => tc.expr_pool[8] = EUInt64(0)

\* no function's check went past the guard of type_check twice
BodiesVisitedOnce ==
    \A i, j \in 1..Len(tc.body_visits) :
        tc.body_visits[i] = tc.body_visits[j] => i = j

\* a step of check_typing's loop: one more function is checked (its
\* type_check has returned), or the loop is left after the last one
CheckTypingAdvances ==
    pc = "check_typing" =>
        \/ next_fn <= Len(program.function) /\ next_fn' = next_fn + 1
        \/ next_fn > Len(program.function) /\ pc' # "check_typing"

\* C26: type checking terminates for every program, directly and mutually
\* recursive functions included: every type_check returns and check_typing
\* leaves its loop after one step per function, each function's body is
\* visited at most once per checker, and a call to a function whose check is
\* in progress returns without re-entering its body.
C26_TypeCheckingTerminates ==
    /\ []BodiesVisitedOnce
    /\ [][CheckTypingAdvances]_vars

\* f and g call each other and main calls f: each body was visited once,
\* g's from within f's, and check_typing has returned
C26_Witness ==
    /\ program = MutualProgram(Lit(1))
    /\ pc # "check_typing"
    /\ Len(results) = 3
    /\ tc.body_visits = <<"f", "g", "main">>
    /\ \E o \in tc.obs :
          o.op = "type_check" /\ o.what = "f" /\ o.depth_in = 2 /\ o.depth_out = 2

\* C27: for an unsuffixed literal of a function whose type_check returns Ok,
\* the variant the node is rewritten to equals the type the checker assigned
\* to the literal while visiting it: the initializer of `val x: T = 5` and of
\* `var x: T = 5`, visited under the hint T, becomes Expr::Int64 for T = i64
\* and Expr::UInt64 for T = u64.
C27_LiteralTypeAgreement ==
    \A K \in {"Val", "Var"}, T \in DeclTypes :
        (/\ program = DeclProgram(K, T, Lit(5))
         /\ Len(results) >= 1
         /\ results[1].ok) =>
            /\ results[1].ty = T
            /\ tc.expr_pool[1].kind = T.k

\* the type of a typed initializer
InitializerType(L) == IF L = ETrue THEN BoolT ELSE Ty(L.kind)

\* C28: a val declaration with an explicit annotation T whose initializer has
\* a different concrete type is rejected with TypeMismatch, as the same
\* declaration written with var is; after an accepted val or var declaration
\* the type recorded for the variable (the type of the function's final `x`)
\* equals the type of its initializer.
C28_AnnotationMismatch ==
    \A K \in {"Val", "Var"}, T \in DeclTypes, L \in DeclInitializers \ {Lit(5)} :
        (program = DeclProgram(K, T, L) /\ Len(results) >= 1) =>
            /\ InitializerType(L) # T =>
                  (~results[1].ok /\ results[1].err.kind = "TypeMismatch")
            /\ results[1].ok => results[1].ty = InitializerType(L)

\* the function f of the program has been checked and main has not
OnlyFChecked ==
    /\ Len(results) = 1
    /\ program.function[1].name = "f"

\* C29: type_check(F) rewrites only Number nodes of F's own body.  The
\* literal of `val y = 5` in main is still Expr::Number when type_check(f)
\* has returned and main is not yet checked, and when f is checked inline
\* from main the literal is left to main's context: main's `y + 7i64`
\* makes it Expr::Int64 and main is accepted with the type Int64.
C29_RewritesOwnBodyOnly ==
    \A c \in BOOLEAN :
        program = OwnBodyProgram(c) =>
            /\ OnlyFChecked => tc.expr_pool[3] = Lit(5)
            /\ Len(results) = 2 =>
                  /\ \A j \in 1..2 : results[j].ok
                  /\ tc.expr_pool[3] = EInt64(5)

\* the result recorded for the function called name
ResultOf(name) ==
    results[CHOOSE j \in 1..Len(program.function) : program.function[j].name = name]

\* C30: the outcome of checking a function (Ok or Err, its result type, the
\* variant its literals are rewritten to) does not depend on the order of the
\* functions in the program: main of OrderProgram has, with f before it, the
\* outcome it has when it is checked first (Ok(Int64), its literal 5 an
\* Expr::Int64), and f is Ok(UInt64) in both orders.
C30_OrderIndependence ==
    \A m \in BOOLEAN :
        (program = OrderProgram(m) /\ Len(results) = 2) =>
            /\ ResultOf("main").ok
            /\ ResultOf("main").ty = Int64T
            /\ tc.expr_pool[3] = EInt64(5)
            /\ ResultOf("f").ok
            /\ ResultOf("f").ty = UInt64T

====
